---- MODULE Spec2Model ----
(***************************************************************************)
(* SmartLit: the vector-store service (chunking, indexing, retrieval,      *)
(* statistics), the PDF ingestion path, the article monitor with its       *)
(* persisted processed-title set, the relationship-graph builders and the  *)
(* retrieval-augmented question answering.                                 *)
(*                                                                         *)
(* Python strings are sequences of tokens.  A token is a run of n          *)
(* non-whitespace characters, one space or one newline, so that lengths,   *)
(* separators, slices and strip() are computed as Python computes them.    *)
(***************************************************************************)
EXTENDS Integers, Sequences, FiniteSets, TLC

\* ------------------------------------------------------------------------
\* Strings
\* ------------------------------------------------------------------------
Run(s, n) == [k |-> "w", s |-> s, n |-> n]
W(s) == Run(s, Len(s))
SP == [k |-> "sp", s |-> " ", n |-> 1]
NL == [k |-> "nl", s |-> "\n", n |-> 1]
EmptyStr == << >>

RECURSIVE StrLen(_)
StrLen(str) == IF str = << >> THEN 0 ELSE Head(str).n + StrLen(Tail(str))

Truthy(str) == str # EmptyStr

IsSpace(tok) == tok.k # "w"

RECURSIVE LStrip(_)
LStrip(str) ==
  IF str # << >> /\ IsSpace(Head(str)) THEN LStrip(Tail(str)) ELSE str

RECURSIVE RStrip(_)
RStrip(str) ==
  IF str # << >> /\ IsSpace(str[Len(str)])
  THEN RStrip(SubSeq(str, 1, Len(str) - 1))
  ELSE str

Strip(str) == RStrip(LStrip(str))

\* str[:n]
RECURSIVE Slice(_, _)
Slice(str, n) ==
  IF str = << >> \/ n <= 0 THEN << >>
  ELSE IF Head(str).n <= n
       THEN << Head(str) >> \o Slice(Tail(str), n - Head(str).n)
       ELSE << Run(Head(str).s, n) >>

RECURSIVE Concat(_)
Concat(strs) == IF strs = << >> THEN << >> ELSE Head(strs) \o Concat(Tail(strs))

\* list(text): one element per character
RECURSIVE Chars(_)
Chars(str) ==
  IF str = << >> THEN << >>
  ELSE IF Head(str).n > 1
       THEN << << Run(Head(str).s, 1) >> >>
              \o Chars(<< Run(Head(str).s, Head(str).n - 1) >> \o Tail(str))
       ELSE << << Head(str) >> >> \o Chars(Tail(str))

\* ------------------------------------------------------------------------
\* RecursiveCharacterTextSplitter(chunk_size, chunk_overlap, length_function
\* = len, separators = ["\n\n", "\n", " ", ""]), keep_separator and
\* strip_whitespace at their defaults (True)
\* ------------------------------------------------------------------------
chunk_size == 1000
chunk_overlap == 200
separators == << << NL, NL >>, << NL >>, << SP >>, << >> >>

Contains(text, sep) ==
  \E i \in 1..Len(text) :
     i + Len(sep) - 1 <= Len(text) /\ SubSeq(text, i, i + Len(sep) - 1) = sep

\* re.split with the separator kept at the head of the piece that follows it
RECURSIVE SplitFrom(_, _, _, _)
SplitFrom(text, sep, i, cur) ==
  IF i > Len(text) THEN << cur >>
  ELSE IF i + Len(sep) - 1 <= Len(text) /\ SubSeq(text, i, i + Len(sep) - 1) = sep
       THEN << cur >> \o SplitFrom(text, sep, i + Len(sep), sep)
       ELSE SplitFrom(text, sep, i + 1, Append(cur, text[i]))

split_text_with_regex(text, sep) ==
  IF sep = << >> THEN Chars(text)
  ELSE SelectSeq(SplitFrom(text, sep, 1, << >>), LAMBDA p : p # << >>)

\* _join_docs: the empty result stands for None
join_docs(docs) == Strip(Concat(docs))

AppendDoc(docs, current_doc) ==
  IF join_docs(current_doc) = << >> THEN docs ELSE Append(docs, join_docs(current_doc))

\* the while loop of _merge_splits: drop splits from the head of current_doc
\* until the overlap fits; yields << current_doc, total >>
RECURSIVE PopOverlap(_, _, _)
PopOverlap(current_doc, total, len) ==
  IF total > chunk_overlap \/ (total + len > chunk_size /\ total > 0)
  THEN PopOverlap(Tail(current_doc), total - StrLen(Head(current_doc)), len)
  ELSE << current_doc, total >>

\* _merge_splits with separator "" (keep_separator is True)
RECURSIVE MergeFrom(_, _, _, _, _)
MergeFrom(splits, i, docs, current_doc, total) ==
  IF i > Len(splits) THEN AppendDoc(docs, current_doc)
  ELSE LET d == splits[i]
           len == StrLen(d)
       IN IF total + len > chunk_size /\ Len(current_doc) > 0
          THEN LET popped == PopOverlap(current_doc, total, len)
               IN MergeFrom(splits, i + 1, AppendDoc(docs, current_doc),
                            Append(popped[1], d), popped[2] + len)
          ELSE MergeFrom(splits, i + 1, docs, Append(current_doc, d), total + len)

merge_splits(splits) == MergeFrom(splits, 1, << >>, << >>, 0)

\* index of the first separator that is "" or occurs in the text
FirstSep(text, seps) ==
  CHOOSE i \in 1..Len(seps) :
     /\ seps[i] = << >> \/ Contains(text, seps[i])
     /\ \A j \in 1..(i - 1) : ~(seps[j] = << >> \/ Contains(text, seps[j]))

RECURSIVE split_text_rec(_, _)
RECURSIVE SplitLoop(_, _, _, _, _)
SplitLoop(splits, i, good_splits, final_chunks, new_separators) ==
  IF i > Len(splits)
  THEN IF good_splits # << >> THEN final_chunks \o merge_splits(good_splits)
                              ELSE final_chunks
  ELSE LET s == splits[i]
           flushed == IF good_splits # << >>
                      THEN final_chunks \o merge_splits(good_splits)
                      ELSE final_chunks
       IN IF StrLen(s) < chunk_size
          THEN SplitLoop(splits, i + 1, Append(good_splits, s), final_chunks,
                         new_separators)
          ELSE IF new_separators = << >>
               THEN SplitLoop(splits, i + 1, << >>, Append(flushed, s),
                              new_separators)
               ELSE SplitLoop(splits, i + 1, << >>,
                              flushed \o split_text_rec(s, new_separators),
                              new_separators)

split_text_rec(text, seps) ==
  LET i == FirstSep(text, seps)
      separator == seps[i]
      new_separators == IF separator = << >> THEN << >>
                        ELSE SubSeq(seps, i + 1, Len(seps))
  IN SplitLoop(split_text_with_regex(text, separator), 1, << >>, << >>,
               new_separators)

split_text(text) == split_text_rec(text, separators)

\* ------------------------------------------------------------------------
\* Article records.  A key that is absent, None or "" is the empty string;
\* a year that is absent or None is NoYear.
\* ------------------------------------------------------------------------
NoYear == -1
NoneStr == << [k |-> "none", s |-> "None", n |-> 4] >>

Art(title, abstract, full_text, year, risk_type, objective) ==
  [title |-> title, abstract |-> abstract, full_text |-> full_text,
   authors |-> << >>, year |-> year, journal |-> EmptyStr,
   risk_type |-> risk_type, level_of_analysis |-> EmptyStr,
   objective |-> objective, methodology |-> EmptyStr,
   key_variables |-> EmptyStr, main_findings |-> EmptyStr,
   implications |-> EmptyStr, limitations |-> EmptyStr]

Financial == << W("Financial") >>
Operational == << W("Operational") >>

\* "Title: A" + abstract of 40 characters: 60 characters in all, one chunk
ArtA == Art(<< W("A") >>, << Run("a", 40) >>, EmptyStr, 2020, Financial, EmptyStr)
\* pieces of 8, 700, 150 and 200 characters: two chunks, the second one
\* starting with the 150-character overlap
ArtB == Art(<< W("B") >>, << Run("b", 688), NL, NL, Run("c", 148) >>, EmptyStr,
            2021, Operational, << Run("o", 187) >>)
\* full text but no abstract
ArtC == Art(<< W("C") >>, EmptyStr, << Run("f", 300), SP, Run("g", 900) >>,
            2020, Financial, EmptyStr)
\* neither abstract nor full text, no year
ArtD == Art(<< W("D") >>, EmptyStr, EmptyStr, NoYear, EmptyStr, EmptyStr)

Articles == {ArtA, ArtB, ArtC, ArtD}

\* what datetime.now().year returns while the monitor runs
current_year == 2024

\* articles the CrossRef search returns to the monitor
MonT1 == Art(<< W("T1") >>, << Run("a", 40) >>, EmptyStr, current_year, EmptyStr,
             EmptyStr)
MonT2 == Art(<< W("T2") >>, << Run("b", 50) >>, EmptyStr, current_year, EmptyStr,
             EmptyStr)
\* published the year before: not recent
MonOld == Art(<< W("T3") >>, << Run("c", 60) >>, EmptyStr, current_year - 1,
              EmptyStr, EmptyStr)
MonArticles == {MonT1, MonT2, MonOld}

\* ------------------------------------------------------------------------
\* VectorStoreService.chunk_article_content
\* ------------------------------------------------------------------------
analysis_fields == << "objective", "methodology", "key_variables",
                      "main_findings", "implications", "limitations" >>

\* field.replace('_', ' ').title() followed by ": "
FieldLabel(field) ==
  CASE field = "objective"     -> << W("Objective:"), SP >>
    [] field = "methodology"   -> << W("Methodology:"), SP >>
    [] field = "key_variables" -> << W("Key"), SP, W("Variables:"), SP >>
    [] field = "main_findings" -> << W("Main"), SP, W("Findings:"), SP >>
    [] field = "implications"  -> << W("Implications:"), SP >>
    [] field = "limitations"   -> << W("Limitations:"), SP >>

RECURSIVE AnalysisText(_, _)
AnalysisText(article, i) ==
  IF i > Len(analysis_fields) THEN << >>
  ELSE (IF Truthy(article[analysis_fields[i]])
        THEN << NL, NL >> \o FieldLabel(analysis_fields[i])
                \o article[analysis_fields[i]]
        ELSE << >>) \o AnalysisText(article, i + 1)

primary_content(article) ==
  << W("Title:"), SP >> \o article.title
     \o << NL, NL, W("Abstract:"), SP >> \o article.abstract
     \o AnalysisText(article, 1)

\* ', '.join(authors)
RECURSIVE JoinAuthors(_)
JoinAuthors(authors) ==
  IF authors = << >> THEN << >>
  ELSE IF Len(authors) = 1 THEN Head(authors)
       ELSE Head(authors) \o << W(","), SP >> \o JoinAuthors(Tail(authors))

Metadata(article, document_id) ==
  [title |-> article.title, authors |-> JoinAuthors(article.authors),
   year |-> article.year, journal |-> article.journal,
   risk_type |-> article.risk_type,
   level_of_analysis |-> article.level_of_analysis,
   source |-> << W("crossref") >>, document_id |-> document_id]

PdfTitle == << W("P") >>

\* an uploaded PDF: the cleaned text extract_text_from_pdf returns and what
\* extract_metadata_from_text finds in it
Pdf(text, title, abstract) == [text |-> text, title |-> title, abstract |-> abstract]

Pdfs ==
  { Pdf(<< Run("p", 99) >>, PdfTitle, << Run("q", 51) >>),
    Pdf(<< Run("p", 100) >>, PdfTitle, EmptyStr),
    Pdf(<< Run("p", 900), SP, Run("q", 900), SP, Run("r", 698) >>, PdfTitle,
        EmptyStr) }

\* what the analyzer returns for an abstract
Analyses ==
  { [risk_type |-> Financial, objective |-> << Run("o", 30) >>] }

MinPdfText == 100
AbstractLimit == 2000

PdfMetadata(pdf) ==
  [title |-> pdf.title,
   abstract |-> IF Truthy(pdf.abstract) THEN pdf.abstract
                ELSE Slice(pdf.text, AbstractLimit)]

PdfArticle(pdf, analysis) ==
  [Art(PdfMetadata(pdf).title, PdfMetadata(pdf).abstract, pdf.text, NoYear,
       analysis.risk_type, analysis.objective)
     EXCEPT !.authors = << >>]

\* every text the model hands to the splitter, split once
\* {**article, **analysis}
FullArticle(article, analysis) ==
  [article EXCEPT !.risk_type = analysis.risk_type,
                  !.objective = analysis.objective]

Contents ==
  {primary_content(a) : a \in Articles}
    \cup {primary_content(PdfArticle(pdf, an)) : pdf \in Pdfs, an \in Analyses}
    \cup {primary_content(FullArticle(a, an)) : a \in MonArticles, an \in Analyses}
SplitMemo == [text \in Contents |-> split_text(text)]

\* variant: positions counted from 1
chunk_article_content_OneBased(article, document_id) ==
  LET chunks == SplitMemo[primary_content(article)]
  IN [i \in 1..Len(chunks) |->
        [page_content |-> chunks[i],
         metadata |-> [title |-> article.title,
                       authors |-> JoinAuthors(article.authors),
                       year |-> article.year, journal |-> article.journal,
                       risk_type |-> article.risk_type,
                       level_of_analysis |-> article.level_of_analysis,
                       source |-> << W("crossref") >>,
                       document_id |-> document_id,
                       chunk_id |-> i, total_chunks |-> Len(chunks)]]]

\* variant: a record without abstract yields no chunk
chunk_article_content_NeedsAbstract(article, document_id) ==
  LET chunks == IF Truthy(article.abstract)
                THEN SplitMemo[primary_content(article)]
                ELSE << >>
  IN [i \in 1..Len(chunks) |->
        [page_content |-> chunks[i],
         metadata |-> [title |-> article.title,
                       authors |-> JoinAuthors(article.authors),
                       year |-> article.year, journal |-> article.journal,
                       risk_type |-> article.risk_type,
                       level_of_analysis |-> article.level_of_analysis,
                       source |-> << W("crossref") >>,
                       document_id |-> document_id,
                       chunk_id |-> i - 1, total_chunks |-> Len(chunks)]]]

\* document_id is the uuid4 drawn by this call
chunk_article_content(article, document_id) ==
  LET chunks == SplitMemo[primary_content(article)]
      metadata == Metadata(article, document_id)
  IN [i \in 1..Len(chunks) |->
        [page_content |-> chunks[i],
         metadata |-> [title |-> metadata.title, authors |-> metadata.authors,
                       year |-> metadata.year, journal |-> metadata.journal,
                       risk_type |-> metadata.risk_type,
                       level_of_analysis |-> metadata.level_of_analysis,
                       source |-> metadata.source,
                       document_id |-> metadata.document_id,
                       chunk_id |-> i - 1, total_chunks |-> Len(chunks)]]]

\* ------------------------------------------------------------------------
\* State
\* ------------------------------------------------------------------------
VARIABLES
  collection,   \* the Chroma collection: the documents added so far, in order
  uuid_ctr,     \* number of uuid4 values drawn so far; the next one is fresh
  submitted,    \* title -> number of times add_documents accepted the article
  call,         \* the last call of the service and what it returned
  mon,          \* the ArticleMonitor objects and their monitoring cycle
  file,         \* processed_articles.json
  sheet,        \* titles of the rows appended to the Google sheet
  cycles,       \* number of monitoring cycles started
  finished,     \* the cycle that returned last: its monitor and its summary
  ever_marked,  \* the titles some cycle has marked as processed
  io_failed,    \* a save, or a load of the existing file, has failed
  recent,       \* the last call of is_article_recent
  graph         \* the last call of a graph builder and what it returned

vsVars == << collection, uuid_ctr, submitted, call >>
monVars == << mon, file, sheet, cycles, finished, ever_marked, io_failed >>
vars == << collection, uuid_ctr, submitted, call, mon, file, sheet, cycles,
           finished, ever_marked, io_failed, recent, graph >>

\* bounds of the model
MaxDocs == 4
MaxUuid == 3
MaxK == 2

Titles == {a.title : a \in Articles \cup MonArticles} \cup {PdfTitle}

\* ------------------------------------------------------------------------
\* VectorStoreService.add_articles
\* ------------------------------------------------------------------------
\* variant: a record with full text but no abstract is chunked too
RECURSIVE ChunkBatch_FullText(_, _, _, _)
ChunkBatch_FullText(articles, i, all_documents, ctr) ==
  IF i > Len(articles) THEN << all_documents, ctr >>
  ELSE IF Truthy(articles[i].abstract) \/ Truthy(articles[i].full_text)
       THEN ChunkBatch_FullText(articles, i + 1,
                                all_documents
                                  \o chunk_article_content(articles[i], ctr),
                                ctr + 1)
       ELSE ChunkBatch_FullText(articles, i + 1, all_documents, ctr)

\* the loop over the batch: << all_documents, uuid counter after the loop >>
RECURSIVE ChunkBatch(_, _, _, _)
ChunkBatch(articles, i, all_documents, ctr) ==
  IF i > Len(articles) THEN << all_documents, ctr >>
  ELSE IF Truthy(articles[i].abstract)
       THEN ChunkBatch(articles, i + 1,
                       all_documents \o chunk_article_content(articles[i], ctr),
                       ctr + 1)
       ELSE ChunkBatch(articles, i + 1, all_documents, ctr)

AllDocuments(articles, ctr) == ChunkBatch(articles, 1, << >>, ctr)[1]
CtrAfter(articles, ctr) == ChunkBatch(articles, 1, << >>, ctr)[2]

\* variant: total_chunks counts the chunked records
AddStats_CountsRecords(articles, all_documents) ==
  [total_articles |-> Len(articles),
   processed_articles |->
      Cardinality({i \in 1..Len(articles) : Truthy(articles[i].abstract)}),
   total_chunks |->
      Cardinality({i \in 1..Len(articles) : Truthy(articles[i].abstract)})]

AddStats(articles, all_documents) ==
  [total_articles |-> Len(articles),
   processed_articles |->
      Cardinality({i \in 1..Len(articles) : Truthy(articles[i].abstract)}),
   total_chunks |-> Len(all_documents)]

\* add_documents is called only for a non-empty list; when it raises, the
\* exception leaves add_articles and nothing is returned
AddRaises(articles, ctr, store_ok) ==
  AllDocuments(articles, ctr) # << >> /\ ~store_ok

\* variant: documents of a title the collection already holds are skipped
CollectionAfterAdd_Dedup(coll, articles, ctr, store_ok) ==
  IF AllDocuments(articles, ctr) # << >> /\ store_ok
  THEN coll \o SelectSeq(AllDocuments(articles, ctr),
                         LAMBDA d : \A i \in 1..Len(coll) :
                                       coll[i].metadata.title # d.metadata.title)
  ELSE coll

CollectionAfterAdd(coll, articles, ctr, store_ok) ==
  IF AllDocuments(articles, ctr) # << >> /\ store_ok
  THEN coll \o AllDocuments(articles, ctr)
  ELSE coll

CountIn(articles, title) ==
  Cardinality({i \in 1..Len(articles) :
                 articles[i].title = title /\ Truthy(articles[i].abstract)})

SubmittedAfterAdd(subm, articles, ctr, store_ok) ==
  IF AllDocuments(articles, ctr) # << >> /\ store_ok
  THEN [t \in Titles |-> subm[t] + CountIn(articles, t)]
  ELSE subm

\* the batches callers submit
Batches == { << >>, << ArtA >>, << ArtB >>, << ArtC >>, << ArtD >>,
             << ArtA, ArtB >>, << ArtC, ArtA >>, << ArtD, ArtC >>,
             << ArtA, ArtA >> }

AddArticles(articles, store_ok) ==
  LET all_documents == AllDocuments(articles, uuid_ctr)
  IN /\ store_ok \/ all_documents # << >>
     /\ Len(collection) + Len(all_documents) <= MaxDocs
     /\ CtrAfter(articles, uuid_ctr) <= MaxUuid
     /\ collection' = CollectionAfterAdd(collection, articles, uuid_ctr, store_ok)
     /\ submitted' = SubmittedAfterAdd(submitted, articles, uuid_ctr, store_ok)
     /\ uuid_ctr' = CtrAfter(articles, uuid_ctr)
     /\ call' = [op |-> "add_articles", articles |-> articles,
                 before |-> Len(collection),
                 wrote |-> all_documents # << >>,
                 raised |-> AddRaises(articles, uuid_ctr, store_ok),
                 ret |-> AddStats(articles, all_documents)]
     /\ UNCHANGED << monVars, recent, graph >>

\* a direct call of chunk_article_content
\* the call before this one, when it was a call of chunk_article_content too
PreviousChunk ==
  IF call.op = "chunk"
  THEN [op |-> "chunk", article |-> call.article, ret |-> call.ret]
  ELSE [op |-> "none"]

Chunk(article) ==
  /\ uuid_ctr < MaxUuid
  /\ uuid_ctr' = uuid_ctr + 1
  /\ call' = [op |-> "chunk", article |-> article, raised |-> FALSE,
              ret |-> chunk_article_content(article, uuid_ctr),
              previous |-> PreviousChunk]
  /\ UNCHANGED << collection, submitted, monVars, recent, graph >>

\* ------------------------------------------------------------------------
\* VectorStoreService.search_similar
\* ------------------------------------------------------------------------
IntKeys == {"year", "chunk_id", "total_chunks", "document_id"}
NoneOf(key) == IF key \in IntKeys THEN NoYear ELSE NoneStr

\* the filters callers pass (keyword arguments, a value may be None)
FilterChoices ==
  << << >>,
     [year |-> 2020],
     [year |-> NoYear],
     [risk_type |-> Financial],
     [year |-> 2021, risk_type |-> NoneStr],
     [title |-> << W("B") >>] >>

\* variant: the year filter does not reach the store
where_clause_YearOnly(filters) ==
  [key \in {f \in DOMAIN filters : filters[f] # NoneOf(f) /\ f # "year"}
     |-> filters[key]]

where_clause(filters) ==
  [key \in {f \in DOMAIN filters : filters[f] # NoneOf(f)} |-> filters[key]]

\* Chroma: a document satisfies a where clause when its metadata equals the
\* clause on every key of the clause
Satisfies(doc, where) ==
  \A key \in DOMAIN where : doc.metadata[key] = where[key]

Min(a, b) == IF a < b THEN a ELSE b

\* Chroma.similarity_search(query, k, filter): the k nearest of the
\* documents that satisfy the filter, in an order this service does not
\* control; each possible answer is a sequence of positions in the collection
SimilaritySearch(coll, k, where) ==
  LET matching == {i \in 1..Len(coll) : Satisfies(coll[i], where)}
      n == Min(k, Cardinality(matching))
  IN {r \in [1..n -> matching] : \A i, j \in 1..n : i # j => r[i] # r[j]}

SearchSimilar(k, fi, store_ok) ==
  \/ /\ store_ok
     /\ \E r \in SimilaritySearch(collection, k, where_clause(FilterChoices[fi])) :
          call' = [op |-> "search_similar", k |-> k,
                   filters |-> FilterChoices[fi], raised |-> FALSE,
                   ret |-> [i \in 1..Len(r) |-> collection[r[i]]]]
     /\ UNCHANGED << collection, uuid_ctr, submitted, monVars, recent, graph >>
  \/ /\ ~store_ok
     /\ call' = [op |-> "search_similar", k |-> k,
                 filters |-> FilterChoices[fi], raised |-> TRUE, ret |-> << >>]
     /\ UNCHANGED << collection, uuid_ctr, submitted, monVars, recent, graph >>

\* ------------------------------------------------------------------------
\* VectorStoreService.get_collection_stats, delete_collection
\* ------------------------------------------------------------------------
CHROMA_COLLECTION_NAME == "smartlit_articles"

\* variant: the failure payload carries no error field
get_collection_stats_NoError(coll, store_ok) ==
  IF store_ok
  THEN [total_documents |-> Len(coll), collection_name |-> CHROMA_COLLECTION_NAME]
  ELSE [total_documents |-> 0, collection_name |-> CHROMA_COLLECTION_NAME]

get_collection_stats(coll, store_ok) ==
  IF store_ok
  THEN [total_documents |-> Len(coll), collection_name |-> CHROMA_COLLECTION_NAME]
  ELSE [error |-> "count failed", total_documents |-> 0]

GetCollectionStats(store_ok) ==
  /\ call' = [op |-> "get_collection_stats", store_ok |-> store_ok,
              raised |-> FALSE, ret |-> get_collection_stats(collection, store_ok)]
  /\ UNCHANGED << collection, uuid_ctr, submitted, monVars, recent, graph >>

DeleteCollection ==
  /\ collection # << >>
  /\ collection' = << >>
  /\ submitted' = [t \in Titles |-> 0]
  /\ call' = [op |-> "delete_collection", raised |-> FALSE]
  /\ UNCHANGED << uuid_ctr, monVars, recent, graph >>

\* ------------------------------------------------------------------------
\* PDFProcessor.process_pdf
\* ------------------------------------------------------------------------
\* outcome names the first step that fails, or "ok"
ProcessPdf(pdf, analysis, outcome) ==
  \/ /\ outcome = "extract_error"
     /\ call' = [op |-> "process_pdf", pdf |-> pdf,
                 before |-> Len(collection), raised |-> FALSE,
                 ret |-> [success |-> FALSE, extracted_text_length |-> 0]]
     /\ UNCHANGED << collection, uuid_ctr, submitted, monVars, recent, graph >>
  \/ /\ outcome = "ok"
     /\ StrLen(pdf.text) < MinPdfText
     /\ call' = [op |-> "process_pdf", pdf |-> pdf,
                 before |-> Len(collection), raised |-> FALSE,
                 ret |-> [success |-> FALSE,
                          extracted_text_length |-> StrLen(pdf.text)]]
     /\ UNCHANGED << collection, uuid_ctr, submitted, monVars, recent, graph >>
  \/ /\ outcome = "analyze_error"
     /\ StrLen(pdf.text) >= MinPdfText
     /\ Truthy(PdfMetadata(pdf).abstract)
     /\ call' = [op |-> "process_pdf", pdf |-> pdf,
                 before |-> Len(collection), raised |-> FALSE,
                 ret |-> [success |-> FALSE,
                          extracted_text_length |-> StrLen(pdf.text)]]
     /\ UNCHANGED << collection, uuid_ctr, submitted, monVars, recent, graph >>
  \/ /\ outcome \in {"ok", "add_error"}
     /\ StrLen(pdf.text) >= MinPdfText
     /\ Truthy(PdfMetadata(pdf).abstract)
     /\ LET articles == << PdfArticle(pdf, analysis) >>
            store_ok == (outcome = "ok")
        IN /\ Len(collection) + Len(AllDocuments(articles, uuid_ctr)) <= MaxDocs
           /\ CtrAfter(articles, uuid_ctr) <= MaxUuid
           /\ collection' = CollectionAfterAdd(collection, articles, uuid_ctr, store_ok)
           /\ submitted' = SubmittedAfterAdd(submitted, articles, uuid_ctr, store_ok)
           /\ uuid_ctr' = CtrAfter(articles, uuid_ctr)
           /\ call' = [op |-> "process_pdf", pdf |-> pdf,
                       before |-> Len(collection), raised |-> FALSE,
                       ret |-> IF store_ok
                               THEN [success |-> TRUE,
                                     extracted_text_length |-> StrLen(pdf.text),
                                     vector_stats |->
                                       AddStats(articles,
                                                AllDocuments(articles, uuid_ctr))]
                               ELSE [success |-> FALSE,
                                     extracted_text_length |-> StrLen(pdf.text)]]
           /\ UNCHANGED << monVars, recent, graph >>

\* ------------------------------------------------------------------------
\* ArticleMonitor
\* ------------------------------------------------------------------------
\* "scheduled" is the monitor that schedule_monitoring runs again and again;
\* "manual" is run_manual_monitoring, which builds a new ArticleMonitor for
\* every cycle
Monitors == {"scheduled", "manual"}

\* bounds of the model
NumTopics == 2
MaxCycles == 2

max_articles_per_topic == 5
max_days_since_publication == 30

\* self.default_topics: topic names, here numbers
DefaultTopics == [i \in 1..NumTopics |-> i]

\* the topic lists run_manual_monitoring is called with: none (the default
\* topics are kept), or a list that names one topic at every position
RepeatedTopics == [i \in 1..NumTopics |-> 1]
TopicLists == {DefaultTopics, RepeatedTopics}

\* ArticleMonitor.__init__; topic_results is the dictionary of
\* process_all_topics, events lists the steps of the cycle in the order they
\* ran, failed holds the titles whose analysis raised in the cycle
NewMonitor ==
  [pc |-> "idle", enabled |-> TRUE, processed_titles |-> {},
   default_topics |-> DefaultTopics,
   topic |-> 0, new_articles |-> << >>, analyzed_articles |-> << >>,
   all_articles |-> << >>, topic_results |-> << >>,
   load_result |-> "none", before_load |-> {}, loaded_titles |-> {},
   cycle_marked |-> {}, stored |-> FALSE,
   events |-> << >>, failed |-> {}]

NoFile == [exists |-> FALSE, titles |-> {}]

\* load_processed_titles: FileNotFoundError when the file is missing; an
\* existing file is read, or the read raises
LoadOutcomes(f) == IF f.exists THEN {"ok", "error"} ELSE {"not_found"}

\* variant: a failed load starts from the empty set
load_processed_titles_Reset(processed_titles, f, outcome) ==
  IF outcome = "ok" THEN f.titles ELSE {}

load_processed_titles(processed_titles, f, outcome) ==
  IF outcome = "ok" THEN f.titles ELSE processed_titles

\* variant: the file is written without the titles it was loaded with
save_processed_titles_OnlyNew(processed_titles, f, save_ok) ==
  IF save_ok THEN [exists |-> TRUE, titles |-> processed_titles \ f.titles]
  ELSE f

save_processed_titles(processed_titles, f, save_ok) ==
  IF save_ok THEN [exists |-> TRUE, titles |-> processed_titles] ELSE f

\* variant: the age in days is compared with the year
is_article_recent_NoDivision(article, year_now, max_days) ==
  IF article.year = NoYear \/ article.year = 0 THEN FALSE
  ELSE article.year >= year_now - max_days

is_article_recent(article, year_now, max_days) ==
  IF article.year = NoYear \/ article.year = 0 THEN FALSE
  ELSE article.year >= year_now - (max_days \div 365)

\* what crossref_tool._run returns for a topic: a list of articles, or it raises
Found(items) == [raised |-> FALSE, items |-> items]
SearchOutcomes ==
  { [raised |-> TRUE, items |-> << >>],
    Found(<< MonT1 >>),
    Found(<< MonT1, MonT1 >>),
    Found(<< MonOld, MonT2 >>) }

\* the filter loop of search_and_analyze_new_articles
NewArticles(articles, processed_titles) ==
  SelectSeq(SubSeq(articles, 1, Min(Len(articles), max_articles_per_topic)),
            LAMBDA a : /\ a.title \notin processed_titles
                       /\ is_article_recent(a, current_year,
                                            max_days_since_publication)
                       /\ Truthy(a.abstract))

\* a topic is finished: search_and_analyze_new_articles returns `articles`
\* topic_results[topic] = len(articles)
SetItem(dict, key, value) ==
  [k \in DOMAIN dict \cup {key} |-> IF k = key THEN value ELSE dict[k]]

TopicDone(m, articles) ==
  [m EXCEPT !.pc = "sleep",
            !.new_articles = << >>,
            !.analyzed_articles = << >>,
            !.all_articles = @ \o articles,
            !.topic_results = SetItem(@, m.default_topics[m.topic],
                                      Len(articles))]

\* search_and_analyze_new_articles up to its first await
TopicStart(m, found) ==
  IF ~m.enabled THEN TopicDone(m, << >>)
  ELSE LET searched == [m EXCEPT !.events = Append(@, "search")]
       IN IF \/ found.raised
             \/ NewArticles(found.items, m.processed_titles) = << >>
          THEN TopicDone(searched, << >>)
          ELSE [searched EXCEPT
                  !.pc = "analyze",
                  !.new_articles = NewArticles(found.items, m.processed_titles),
                  !.analyzed_articles = << >>]

NoCycle == [id |-> "none", saved |-> FALSE, sent |-> FALSE,
            summary |-> [status |-> "none"]]

\* process_all_topics up to its first await: the enabled check, the load and
\* the search of the first topic; run_manual_monitoring builds its monitor and
\* gives it the topics it was called with
StartCycle(id, topics, load_outcome, found) ==
  /\ mon[id].pc = "idle"
  /\ cycles < MaxCycles
  /\ cycles' = cycles + 1
  /\ LET self == IF id = "manual"
                 THEN [NewMonitor EXCEPT !.default_topics = topics]
                 ELSE mon[id]
     IN IF ~self.enabled
        THEN /\ finished' = [id |-> id, monitor |-> self,
                             saved |-> FALSE, sent |-> FALSE,
                             summary |-> [status |-> "disabled",
                                          articles_processed |-> 0]]
             /\ UNCHANGED << mon, io_failed >>
        ELSE /\ load_outcome \in LoadOutcomes(file)
             /\ LET loaded == load_processed_titles(self.processed_titles, file,
                                                    load_outcome)
                    started == [self EXCEPT !.processed_titles = loaded,
                                            !.topic = 1,
                                            !.load_result = load_outcome,
                                            !.before_load = self.processed_titles,
                                            !.loaded_titles = loaded,
                                            !.events = << "load" >>]
                IN mon' = [mon EXCEPT ![id] = TopicStart(started, found)]
             /\ io_failed' = (io_failed \/ load_outcome = "error")
             /\ finished' = NoCycle
  /\ UNCHANGED << file, sheet, ever_marked, vsVars, recent, graph >>

\* one cycle at a time, on the default topics: the scheduler's job, or a
\* manual run without topics
BeginCycle(id, load_outcome, found) ==
  /\ \A other \in Monitors : mon[other].pc = "idle"
  /\ StartCycle(id, DefaultTopics, load_outcome, found)

\* variant: an analysed article is not marked
mark_processed_Skip(processed_titles, title) == processed_titles

\* self.processed_titles.add(title)
mark_processed(processed_titles, title) == processed_titles \cup {title}

\* variant: the try block is around the loop, and the first analysis that
\* raises ends the topic with no article
analysis_raised_EndsTopic(self, article) ==
  [self EXCEPT !.failed = @ \cup {article.title},
               !.new_articles = << article >>,
               !.analyzed_articles = << >>]

\* except Exception inside the loop: the error is logged and the loop goes
\* on with the next article
analysis_raised(self, article) ==
  [self EXCEPT !.failed = @ \cup {article.title}]

\* the await of article_analyzer.analyze returns or raises
Analyze(id, analysis, analyze_ok) ==
  /\ mon[id].pc = "analyze"
  /\ LET self == mon[id]
         article == Head(self.new_articles)
         marked == IF analyze_ok
                   THEN [self EXCEPT
                           !.analyzed_articles =
                              Append(@, FullArticle(article, analysis)),
                           !.processed_titles = mark_processed(@, article.title),
                           !.cycle_marked = @ \cup {article.title}]
                   ELSE analysis_raised(self, article)
         rest == [marked EXCEPT !.new_articles = Tail(@)]
     IN /\ mon' = [mon EXCEPT ![id] =
                     IF rest.new_articles = << >>
                     THEN TopicDone(rest, rest.analyzed_articles)
                     ELSE rest]
        /\ ever_marked' = IF analyze_ok THEN ever_marked \cup {article.title}
                          ELSE ever_marked
  /\ UNCHANGED << file, sheet, cycles, finished, io_failed, vsVars, recent, graph >>

\* after asyncio.sleep: the next topic
NextTopic(id, found) ==
  /\ mon[id].pc = "sleep"
  /\ mon[id].topic < NumTopics
  /\ mon' = [mon EXCEPT ![id] =
               TopicStart([mon[id] EXCEPT !.topic = @ + 1], found)]
  /\ UNCHANGED << file, sheet, cycles, finished, ever_marked, io_failed, vsVars,
                  recent, graph >>

\* variant: the titles are saved with the articles, inside the
\* "if all_articles" block
store_and_save_InsideIf(self, f, save_ok) ==
  IF self.all_articles # << >>
  THEN [file |-> save_processed_titles(self.processed_titles, f, save_ok),
        events |-> self.events \o << "store", "save" >>]
  ELSE [file |-> f, events |-> self.events]

\* the end of process_all_topics: the storage block when articles were
\* found, then save_processed_titles
store_and_save(self, f, save_ok) ==
  [file |-> save_processed_titles(self.processed_titles, f, save_ok),
   events |-> self.events
                \o (IF self.all_articles # << >> THEN << "store" >> ELSE << >>)
                \o << "save" >>]

\* after the last topic: store the articles, save the titles, return the
\* summary; the locals of the coroutine end here, and so does the monitor
\* that run_manual_monitoring built
Finish(id, sheet_ok, store_ok, save_ok) ==
  /\ mon[id].pc = "sleep"
  /\ mon[id].topic = Len(mon[id].default_topics)
  /\ LET self == mon[id]
         storing == self.all_articles # << >>
         adding == storing /\ sheet_ok
         ending == store_and_save(self, file, save_ok)
     IN /\ storing \/ (sheet_ok /\ store_ok)
        /\ sheet_ok \/ store_ok
        /\ sheet' = IF adding
                    THEN sheet \o [i \in 1..Len(self.all_articles) |->
                                     self.all_articles[i].title]
                    ELSE sheet
        /\ collection' = IF adding
                         THEN CollectionAfterAdd(collection, self.all_articles,
                                                 uuid_ctr, store_ok)
                         ELSE collection
        /\ submitted' = IF adding
                        THEN SubmittedAfterAdd(submitted, self.all_articles,
                                               uuid_ctr, store_ok)
                        ELSE submitted
        /\ uuid_ctr' = IF adding THEN CtrAfter(self.all_articles, uuid_ctr)
                       ELSE uuid_ctr
        /\ file' = ending.file
        /\ io_failed' = (io_failed \/ ~save_ok)
        /\ finished' =
             [id |-> id,
              monitor |-> [self EXCEPT !.stored = adding /\ store_ok,
                                       !.events = ending.events],
              sent |-> adding,
              saved |-> save_ok,
              summary |-> [status |-> "completed",
                           total_articles_processed |-> Len(self.all_articles),
                           topics_processed |-> Len(self.default_topics),
                           topic_results |-> self.topic_results,
                           articles |-> self.all_articles]]
        /\ mon' = [mon EXCEPT ![id] =
                     [NewMonitor EXCEPT
                        !.enabled = self.enabled,
                        !.processed_titles =
                           IF id = "manual" THEN {} ELSE self.processed_titles]]
  /\ UNCHANGED << cycles, ever_marked, call, recent, graph >>

\* update_config(enabled = ...) on the long-lived monitor, between two
\* cycles or while a cycle of it waits
UpdateConfig(enabled) ==
  /\ mon["scheduled"].enabled # enabled
  /\ mon' = [mon EXCEPT !["scheduled"].enabled = enabled]
  /\ UNCHANGED << file, sheet, cycles, finished, ever_marked, io_failed, vsVars,
                  recent, graph >>

InitMonitorVars ==
  /\ mon = [id \in Monitors |-> NewMonitor]
  /\ file = NoFile
  /\ sheet = << >>
  /\ cycles = 0
  /\ finished = NoCycle
  /\ ever_marked = {}
  /\ io_failed = FALSE

InitVectorStoreVars ==
  /\ collection = << >>
  /\ uuid_ctr = 0
  /\ submitted = [t \in Titles |-> 0]
  /\ call = [op |-> "none", raised |-> FALSE]

\* no graph builder has been called
NoGraph == [op |-> "none", raised |-> FALSE]

NoRecent == [year |-> NoYear, year_now |-> 0, max_days |-> 0, ret |-> FALSE]

InitMonitor == InitVectorStoreVars /\ InitMonitorVars /\ recent = NoRecent /\ graph = NoGraph

NextMonitor ==
  \/ \E id \in Monitors, load_outcome \in {"ok", "error", "not_found"},
        found \in SearchOutcomes : BeginCycle(id, load_outcome, found)
  \/ \E id \in Monitors, analysis \in Analyses, analyze_ok \in BOOLEAN :
       Analyze(id, analysis, analyze_ok)
  \/ \E id \in Monitors, found \in SearchOutcomes : NextTopic(id, found)
  \/ \E id \in Monitors, sheet_ok \in BOOLEAN, store_ok \in BOOLEAN,
        save_ok \in BOOLEAN : Finish(id, sheet_ok, store_ok, save_ok)
  \/ \E enabled \in BOOLEAN : UpdateConfig(enabled)

SpecMonitor == InitMonitor /\ [][NextMonitor]_vars

\* ------------------------------------------------------------------------
\* Monitoring passes that overlap: POST /run_monitoring builds a monitor of
\* its own for every request and nothing keeps a request from arriving
\* while the scheduler's cycle, or an earlier request, waits in an await
\* ------------------------------------------------------------------------
BeginOverlapping(id, load_outcome, found) ==
  StartCycle(id, DefaultTopics, load_outcome, found)

NextOverlap ==
  \/ \E id \in Monitors, load_outcome \in {"ok", "error", "not_found"},
        found \in SearchOutcomes : BeginOverlapping(id, load_outcome, found)
  \/ \E id \in Monitors, analysis \in Analyses, analyze_ok \in BOOLEAN :
       Analyze(id, analysis, analyze_ok)
  \/ \E id \in Monitors, found \in SearchOutcomes : NextTopic(id, found)
  \/ \E id \in Monitors, sheet_ok \in BOOLEAN, store_ok \in BOOLEAN,
        save_ok \in BOOLEAN : Finish(id, sheet_ok, store_ok, save_ok)

SpecOverlap == InitMonitor /\ [][NextOverlap]_vars

\* ------------------------------------------------------------------------
\* Cycles one at a time, the manual ones on the topics of the request:
\* run_manual_monitoring(topics) replaces default_topics by the list it is
\* given, as it is
\* ------------------------------------------------------------------------
RunManualMonitoring(topics, load_outcome, found) ==
  /\ \A other \in Monitors : mon[other].pc = "idle"
  /\ StartCycle("manual", topics, load_outcome, found)

NextSummary ==
  \/ NextMonitor
  \/ \E topics \in TopicLists, load_outcome \in {"ok", "error", "not_found"},
        found \in SearchOutcomes :
       RunManualMonitoring(topics, load_outcome, found)

SpecSummary == InitMonitor /\ [][NextSummary]_vars

\* every await of a cycle returns or raises, and the event loop resumes the
\* coroutine
CycleSteps(id) ==
  \/ \E analysis \in Analyses, analyze_ok \in BOOLEAN :
       Analyze(id, analysis, analyze_ok)
  \/ \E found \in SearchOutcomes : NextTopic(id, found)
  \/ \E sheet_ok \in BOOLEAN, store_ok \in BOOLEAN, save_ok \in BOOLEAN :
       Finish(id, sheet_ok, store_ok, save_ok)

SpecSummaryFair == SpecSummary /\ \A id \in Monitors : WF_vars(CycleSteps(id))

\* ------------------------------------------------------------------------
\* ArticleMonitor.is_article_recent on its own
\* ------------------------------------------------------------------------
RecentYears == {NoYear, 0, 2022, 2023, 2024, 2025, 2026}
RecentNow == {2023, 2024, 2025}
RecentMaxDays == {-30, 0, 30, 364, 365, 366, 730, 1000}

IsArticleRecent(year, year_now, max_days) ==
  /\ recent' = [year |-> year, year_now |-> year_now, max_days |-> max_days,
                ret |-> is_article_recent([MonT1 EXCEPT !.year = year],
                                          year_now, max_days)]
  /\ UNCHANGED << vsVars, monVars, graph >>

InitRecent == InitVectorStoreVars /\ InitMonitorVars /\ recent = NoRecent /\ graph = NoGraph

NextRecent ==
  \E year \in RecentYears, year_now \in RecentNow, max_days \in RecentMaxDays :
    IsArticleRecent(year, year_now, max_days)

SpecRecent == InitRecent /\ [][NextRecent]_vars

\* ------------------------------------------------------------------------
\* CitationGraphGenerator: numbers.  The scores and the statistics are
\* quotients of small non-negative numbers; they are kept as reduced
\* fractions n/d with d > 0.
\* ------------------------------------------------------------------------
RECURSIVE GCD(_, _)
GCD(a, b) == IF b = 0 THEN a ELSE GCD(b, a % b)

Rat(n, d) == LET g == GCD(n, d) IN [n |-> n \div g, d |-> d \div g]
RatZero == Rat(0, 1)
RatAdd(x, y) == Rat(x.n * y.d + y.n * x.d, x.d * y.d)
RatMul(x, y) == Rat(x.n * y.n, x.d * y.d)
\* x / y for y > 0
RatDiv(x, y) == Rat(x.n * y.d, x.d * y.n)
RatGeq(x, y) == x.n * y.d >= y.n * x.d

\* ------------------------------------------------------------------------
\* CitationGraphGenerator: the records handed to the builders
\* ------------------------------------------------------------------------
\* article['authors']: a list of names, one string, or None
AuthorList(items) == [kind |-> "list", items |-> items]
AuthorStr(name) == [kind |-> "str", items |-> << name >>]
AuthorNone == [kind |-> "none", items |-> << >>]

GraphRec(title, authors, year, risk_type, level_of_analysis, abstract) ==
  [Art(title, abstract, EmptyStr, year, risk_type, EmptyStr)
     EXCEPT !.authors = authors, !.level_of_analysis = level_of_analysis]

NameX == << W("X") >>
NameY == << W("Y") >>
NameZ == << W("Z") >>
\* "given family" of an author for whom CrossRef has neither
NameBlank == << SP >>

\* the two records of the similarity example
GraphA == GraphRec(<< W("A") >>, AuthorList(<< NameX, NameY >>), 2020, Financial,
                   EmptyStr, << W("Credit"), SP, W("risk") >>)
GraphB == GraphRec(<< W("B") >>, AuthorList(<< NameY, NameZ >>), 2021, Financial,
                   EmptyStr,
                   << W("credit-risk"), SP, W("models"), SP, W("2020") >>)
\* two spellings of one author
GraphC == GraphRec(<< W("C") >>,
                   AuthorList(<< << W("Dr."), SP, SP, W("smith") >>,
                                 << W("Smith"), SP, W("PhD") >>,
                                 << W("Jones") >> >>),
                   2025, Operational, << W("Firm-Level") >>,
                   << W("the"), SP, W("Risk") >>)
\* two authors without a name, nothing else
GraphD == GraphRec(<< W("D") >>, AuthorList(<< NameBlank, NameBlank >>), NoYear,
                   EmptyStr, EmptyStr, NoneStr)
\* three co-authors
GraphE == GraphRec(<< W("E") >>, AuthorList(<< NameX, NameY, NameZ >>), 2020,
                   Operational, << W("Firm-Level") >>, << W("models") >>)
\* authors is null
GraphF == GraphRec(<< W("F") >>, AuthorNone, 2021, Financial, EmptyStr, NoneStr)
\* authors is one string; no title
GraphG == GraphRec(EmptyStr, AuthorStr(NameX), 2024, EmptyStr,
                   << W("Firm-Level") >>, << W("ai"), SP, W("covid19") >>)
\* every optional field absent
GraphH == GraphRec(EmptyStr, AuthorList(<< >>), NoYear, EmptyStr, EmptyStr,
                   EmptyStr)

GraphRecords ==
  {GraphA, GraphB, GraphC, GraphD, GraphE, GraphF, GraphG, GraphH}

\* bound: the longest record list handed to a builder
MaxRecords == 2

RecordLists == UNION {[1..n -> GraphRecords] : n \in 0..MaxRecords}

\* a value a Python `if` takes as true: not absent, not None, not ""
Present(str) == str # EmptyStr /\ str # NoneStr

\* article.get('title', 'Unknown')
TitleOrUnknown(article) ==
  IF article.title = EmptyStr THEN << W("Unknown") >> ELSE article.title

\* ------------------------------------------------------------------------
\* CitationGraphGenerator._clean_author_name
\* ------------------------------------------------------------------------
\* str.lower() and str.title() on the words that occur in author names
LowerWord(w) ==
  CASE w = "Dr." -> "dr."
    [] w = "Smith" -> "smith"
    [] w = "PhD" -> "phd"
    [] w = "Jones" -> "jones"
    [] w = "X" -> "x"
    [] w = "Y" -> "y"
    [] w = "Z" -> "z"
    [] OTHER -> w

TitleWord(w) ==
  CASE w = "smith" -> "Smith"
    [] w = "PhD" -> "Phd"
    [] OTHER -> w

Prefixes == {"dr", "dr.", "prof", "prof.", "mr", "mr.", "ms", "ms.", "mrs", "mrs."}
Suffixes == {"jr", "jr.", "sr", "sr.", "phd", "phd.", "md", "md."}

\* re.sub(r'\s+', ' ', ...)
RECURSIVE Collapse(_)
Collapse(str) ==
  IF str = << >> THEN << >>
  ELSE IF IsSpace(Head(str))
       THEN << SP >> \o Collapse(LStrip(str))
       ELSE << Head(str) >> \o Collapse(Tail(str))

StripPrefix(name) ==
  IF /\ Len(name) >= 2
     /\ ~IsSpace(name[1])
     /\ LowerWord(name[1].s) \in Prefixes
     /\ IsSpace(name[2])
  THEN SubSeq(name, 3, Len(name))
  ELSE name

StripSuffix(name) ==
  IF /\ Len(name) >= 2
     /\ ~IsSpace(name[Len(name)])
     /\ LowerWord(name[Len(name)].s) \in Suffixes
     /\ IsSpace(name[Len(name) - 1])
  THEN SubSeq(name, 1, Len(name) - 2)
  ELSE name

TitleCase(name) ==
  [i \in 1..Len(name) |->
     IF IsSpace(name[i]) THEN name[i] ELSE W(TitleWord(name[i].s))]

clean_author_name(author_name) ==
  IF author_name = EmptyStr THEN EmptyStr
  ELSE TitleCase(StripSuffix(StripPrefix(Collapse(Strip(author_name)))))

\* ------------------------------------------------------------------------
\* networkx.Graph as the builders use it: a set of nodes and, for every
\* edge, its attributes under the set of its end points ({u} is a self-loop)
\* ------------------------------------------------------------------------
EmptyGraph == [nodes |-> {}, edges |-> << >>]

has_edge(G, u, v) == {u, v} \in DOMAIN G.edges

\* G.add_edge(u, v, **attrs): adds the end points as nodes
add_edge(G, u, v, attrs) ==
  [nodes |-> G.nodes \cup {u, v},
   edges |-> [e \in DOMAIN G.edges \cup {{u, v}} |->
                IF e = {u, v} THEN attrs ELSE G.edges[e]]]

add_nodes(G, new) == [G EXCEPT !.nodes = @ \cup new]

\* G.remove_nodes_from(gone): the nodes go with their edges
remove_nodes_from(G, gone) ==
  [nodes |-> G.nodes \ gone,
   edges |-> [e \in {d \in DOMAIN G.edges : d \cap gone = {}} |-> G.edges[e]]]

\* G.degree(v): a self-loop counts twice
Degree(G, v) ==
  Cardinality({e \in DOMAIN G.edges : v \in e})
    + Cardinality({e \in DOMAIN G.edges : e = {v}})

\* nx.density(G) of an undirected graph
density(G) ==
  LET n == Cardinality(G.nodes)
      m == Cardinality(DOMAIN G.edges)
  IN IF m = 0 \/ n <= 1 THEN RatZero ELSE Rat(2 * m, n * (n - 1))

\* the nodes reached from the set S
RECURSIVE Component(_, _)
Component(G, S) ==
  LET T == S \cup {v \in G.nodes : \E u \in S : has_edge(G, u, v)}
  IN IF T = S THEN S ELSE Component(G, T)

\* nx.number_connected_components(G)
RECURSIVE CountComponents(_, _)
CountComponents(G, remaining) ==
  IF remaining = {} THEN 0
  ELSE LET v == CHOOSE x \in remaining : TRUE
       IN 1 + CountComponents(G, remaining \ Component(G, {v}))

RECURSIVE SumDegrees(_, _)
SumDegrees(G, S) ==
  IF S = {} THEN 0
  ELSE LET v == CHOOSE x \in S : TRUE
       IN Degree(G, v) + SumDegrees(G, S \ {v})

\* variant: the density of a directed graph, m / (n (n - 1))
calculate_network_stats_Directed(G) ==
  IF G.nodes = {} THEN [nodes |-> 0, edges |-> 0]
  ELSE LET n == Cardinality(G.nodes)
           m == Cardinality(DOMAIN G.edges)
           degrees == {Degree(G, v) : v \in G.nodes}
       IN [nodes |-> n,
           edges |-> m,
           density |-> IF m = 0 \/ n <= 1 THEN RatZero ELSE Rat(m, n * (n - 1)),
           connected_components |-> CountComponents(G, G.nodes),
           avg_degree |-> Rat(SumDegrees(G, G.nodes), n),
           max_degree |-> CHOOSE d \in degrees : \A o \in degrees : o <= d,
           min_degree |-> CHOOSE d \in degrees : \A o \in degrees : d <= o]

\* _calculate_network_stats
calculate_network_stats(G) ==
  IF G.nodes = {} THEN [nodes |-> 0, edges |-> 0]
  ELSE LET n == Cardinality(G.nodes)
           degrees == {Degree(G, v) : v \in G.nodes}
       IN [nodes |-> n,
           edges |-> Cardinality(DOMAIN G.edges),
           density |-> density(G),
           connected_components |-> CountComponents(G, G.nodes),
           avg_degree |-> Rat(SumDegrees(G, G.nodes), n),
           max_degree |-> CHOOSE d \in degrees : \A o \in degrees : o <= d,
           min_degree |-> CHOOSE d \in degrees : \A o \in degrees : d <= o]

\* the co-occurrence edge of u and v for one more record
AddCooccurrence(G, u, v, title) ==
  IF has_edge(G, u, v)
  THEN [G EXCEPT !.edges[{u, v}] =
          [weight |-> @.weight + 1, evidence |-> Append(@.evidence, title)]]
  ELSE add_edge(G, u, v, [weight |-> 1, evidence |-> << title >>])

\* for i, x in enumerate(items): for y in items[i+1:]: the pairs from (i, j) on
RECURSIVE AddPairs(_, _, _, _, _)
AddPairs(G, items, i, j, title) ==
  IF i >= Len(items) THEN G
  ELSE IF j > Len(items) THEN AddPairs(G, items, i + 1, i + 2, title)
  ELSE AddPairs(AddCooccurrence(G, items[i], items[j], title), items, i, j + 1,
                title)

\* ------------------------------------------------------------------------
\* CitationGraphGenerator.create_author_network
\* ------------------------------------------------------------------------
\* [self._clean_author_name(author) for author in authors if author]
CleanAuthors(article) ==
  LET kept == SelectSeq(article.authors.items, LAMBDA a : a # EmptyStr)
  IN [i \in 1..Len(kept) |-> clean_author_name(kept[i])]

\* author_info[author] before its first record
NewAuthor == [articles |-> 0, risk_types |-> {}, years |-> << >>]

\* the loop over clean_authors, for one author: every occurrence of the name
\* in the record counts the article, adds the risk type and appends the year
AuthorInfo(info, article, occurrences) ==
  [articles |-> info.articles + occurrences,
   risk_types |-> IF occurrences > 0 /\ Present(article.risk_type)
                  THEN info.risk_types \cup {article.risk_type}
                  ELSE info.risk_types,
   years |-> IF article.year # NoYear /\ article.year # 0
             THEN info.years \o [k \in 1..occurrences |-> article.year]
             ELSE info.years]

\* variant: a record with one author contributes too
AuthorStep_AnyAuthor(acc, article) ==
  LET clean == CleanAuthors(article)
  IN IF Len(clean) > 0
     THEN [G |-> AddPairs(acc.G, clean, 1, 2, TitleOrUnknown(article)),
           author_info |->
             [a \in DOMAIN acc.author_info \cup {clean[i] : i \in 1..Len(clean)}
                |-> AuthorInfo(IF a \in DOMAIN acc.author_info
                               THEN acc.author_info[a] ELSE NewAuthor,
                               article,
                               Cardinality({i \in 1..Len(clean) : clean[i] = a}))]]
     ELSE acc

\* one record of the loop: the author_info entries and the edges
AuthorStep(acc, article) ==
  LET clean == CleanAuthors(article)
  IN IF Len(clean) > 1
     THEN [G |-> AddPairs(acc.G, clean, 1, 2, TitleOrUnknown(article)),
           author_info |->
             [a \in DOMAIN acc.author_info \cup {clean[i] : i \in 1..Len(clean)}
                |-> AuthorInfo(IF a \in DOMAIN acc.author_info
                               THEN acc.author_info[a] ELSE NewAuthor,
                               article,
                               Cardinality({i \in 1..Len(clean) : clean[i] = a}))]]
     ELSE acc

RECURSIVE AuthorLoop(_, _)
AuthorLoop(acc, articles) ==
  IF articles = << >> THEN acc
  ELSE AuthorLoop(AuthorStep(acc, Head(articles)), Tail(articles))

\* iterating over authors = None raises TypeError
AuthorsNull(articles) ==
  \E i \in 1..Len(articles) : articles[i].authors.kind = "none"

create_author_network(articles) ==
  IF AuthorsNull(articles) THEN [raised |-> TRUE]
  ELSE LET acc == AuthorLoop([G |-> EmptyGraph, author_info |-> << >>], articles)
           G == add_nodes(acc.G, DOMAIN acc.author_info)
       IN [raised |-> FALSE,
           network |-> G,
           stats |-> calculate_network_stats(G),
           author_info |-> acc.author_info]

CreateAuthorNetwork(articles) ==
  /\ graph.op = "none"
  /\ graph' = [op |-> "author", articles |-> articles]
                @@ create_author_network(articles)
  /\ UNCHANGED << vsVars, monVars, recent >>

\* ------------------------------------------------------------------------
\* CitationGraphGenerator._extract_keywords, create_keyword_network
\* ------------------------------------------------------------------------
\* str.lower() on the words that occur in the records
Lower(w) ==
  CASE w = "Credit" -> "credit"
    [] w = "Risk" -> "risk"
    [] w = "None" -> "none"
    [] w = "Financial" -> "financial"
    [] w = "Operational" -> "operational"
    [] w = "Firm-Level" -> "firm-level"
    [] w = "A" -> "a"
    [] w = "B" -> "b"
    [] w = "C" -> "c"
    [] w = "D" -> "d"
    [] w = "E" -> "e"
    [] w = "F" -> "f"
    [] OTHER -> w

\* re.sub(r'[^\w\s]', ' ', text.lower()).split() on one run of characters
WordsOf(w) ==
  CASE w = "credit-risk" -> << "credit", "risk" >>
    [] w = "Firm-Level" -> << "firm", "level" >>
    [] OTHER -> << Lower(w) >>

\* str.isalpha() on those words
IsAlpha(w) == w \notin {"2020", "covid19"}

\* str.replace('-', ' ')
HyphenToSpace(w) == IF w = "firm-level" THEN "firm level" ELSE w

stop_words ==
  {"the", "a", "an", "and", "or", "but", "in", "on", "at", "to", "for", "of",
   "with", "by", "this", "that", "these", "those", "is", "are", "was", "were",
   "be", "been", "have", "has", "had", "do", "does", "did", "will", "would",
   "could", "should", "may", "might", "must", "can", "cannot", "from", "into",
   "through", "during", "before", "after", "above", "below", "up", "down",
   "out", "off", "over", "under", "again", "further", "then", "once", "here",
   "there", "when", "where", "why", "how", "all", "any", "both", "each", "few",
   "more", "most", "other", "some", "such", "no", "nor", "not", "only", "own",
   "same", "so", "than", "too", "very"}

min_length == 3

\* the words of a text, in order
RECURSIVE Words(_)
Words(text) ==
  IF text = << >> THEN << >>
  ELSE IF Head(text).k \in {"sp", "nl"} THEN Words(Tail(text))
  ELSE WordsOf(Head(text).s) \o Words(Tail(text))

extract_keywords(text) ==
  LET words == Words(text)
  IN {words[i] : i \in {j \in 1..Len(words) :
                          /\ Len(words[j]) >= min_length
                          /\ words[j] \notin stop_words
                          /\ IsAlpha(words[j])}}

text_fields == << "title", "abstract", "objective", "key_variables",
                  "main_findings" >>

\* ' '.join([str(article.get(field, '')) for field in text_fields])
RECURSIVE combined_text(_, _)
combined_text(article, i) ==
  IF i > Len(text_fields) THEN << >>
  ELSE article[text_fields[i]]
         \o (IF i < Len(text_fields) THEN << SP >> ELSE << >>)
         \o combined_text(article, i + 1)

\* the keyword set of one record
ArticleKeywords(article) ==
  extract_keywords(combined_text(article, 1))
    \cup (IF Present(article.risk_type)
          THEN {Lower(article.risk_type[1].s)} ELSE {})
    \cup (IF Present(article.level_of_analysis)
          THEN {HyphenToSpace(Lower(article.level_of_analysis[1].s))} ELSE {})

\* list(a set), in some order
RECURSIVE SetToSeq(_)
SetToSeq(S) ==
  IF S = {} THEN << >>
  ELSE LET x == CHOOSE y \in S : TRUE IN << x >> \o SetToSeq(S \ {x})

\* one record of the loop: the counts and the co-occurrence edges
KeywordStep(acc, article) ==
  LET keywords == ArticleKeywords(article)
  IN [G |-> AddPairs(acc.G, SetToSeq(keywords), 1, 2, TitleOrUnknown(article)),
      keyword_counts |->
        [kw \in DOMAIN acc.keyword_counts \cup keywords |->
           (IF kw \in DOMAIN acc.keyword_counts
            THEN acc.keyword_counts[kw] ELSE 0)
           + (IF kw \in keywords THEN 1 ELSE 0)]]

RECURSIVE KeywordLoop(_, _)
KeywordLoop(acc, articles) ==
  IF articles = << >> THEN acc
  ELSE KeywordLoop(KeywordStep(acc, Head(articles)), Tail(articles))

\* variant: a keyword without an edge is not added as a node
create_keyword_network_EdgesOnly(articles) ==
  LET acc == KeywordLoop([G |-> EmptyGraph, keyword_counts |-> << >>], articles)
      G == remove_nodes_from(acc.G,
             {kw \in acc.G.nodes : acc.keyword_counts[kw] < 2})
  IN [raised |-> FALSE,
      network |-> G,
      stats |-> calculate_network_stats(G),
      keyword_counts |-> acc.keyword_counts]

create_keyword_network(articles) ==
  LET acc == KeywordLoop([G |-> EmptyGraph, keyword_counts |-> << >>], articles)
      all == add_nodes(acc.G, DOMAIN acc.keyword_counts)
      G == remove_nodes_from(all,
             {kw \in all.nodes : acc.keyword_counts[kw] < 2})
  IN [raised |-> FALSE,
      network |-> G,
      stats |-> calculate_network_stats(G),
      keyword_counts |-> acc.keyword_counts]

CreateKeywordNetwork(articles) ==
  /\ graph.op = "none"
  /\ graph' = [op |-> "keyword", articles |-> articles]
                @@ create_keyword_network(articles)
  /\ UNCHANGED << vsVars, monVars, recent >>

\* ------------------------------------------------------------------------
\* CitationGraphGenerator._calculate_article_similarity
\* ------------------------------------------------------------------------
\* set(article.get('authors', [])): the names of a list, the characters of
\* a string
AuthorSet(article) ==
  IF article.authors.kind = "str"
  THEN LET chars == Chars(article.authors.items[1])
       IN {chars[i] : i \in 1..Len(chars)}
  ELSE {article.authors.items[i] : i \in 1..Len(article.authors.items)}

HasYear(article) == article.year # NoYear /\ article.year # 0

Abs(x) == IF x < 0 THEN -x ELSE x
Max(a, b) == IF a > b THEN a ELSE b

\* the terms [similarity, total_weight] of the four attributes
RiskTerm(a, b) ==
  IF Present(a.risk_type) /\ Present(b.risk_type)
  THEN [sim |-> IF a.risk_type = b.risk_type THEN Rat(3, 10) ELSE RatZero,
        total |-> Rat(3, 10)]
  ELSE [sim |-> RatZero, total |-> RatZero]

LevelTerm(a, b) ==
  IF Present(a.level_of_analysis) /\ Present(b.level_of_analysis)
  THEN [sim |-> IF a.level_of_analysis = b.level_of_analysis
                THEN Rat(2, 10) ELSE RatZero,
        total |-> Rat(2, 10)]
  ELSE [sim |-> RatZero, total |-> RatZero]

\* variant: the weight of the year counts only within 3 years
YearTerm_Inside(a, b) ==
  IF HasYear(a) /\ HasYear(b) /\ Abs(a.year - b.year) <= 3
  THEN [sim |-> RatMul(Rat(1, 10), Rat(3 - Abs(a.year - b.year), 3)),
        total |-> Rat(1, 10)]
  ELSE [sim |-> RatZero, total |-> RatZero]

YearTerm(a, b) ==
  IF HasYear(a) /\ HasYear(b)
  THEN LET year_diff == Abs(a.year - b.year)
       IN [sim |-> IF year_diff <= 3
                   THEN RatMul(Rat(1, 10), Rat(3 - year_diff, 3))
                   ELSE RatZero,
           total |-> Rat(1, 10)]
  ELSE [sim |-> RatZero, total |-> RatZero]

\* variant: the overlap is divided by the size of the first author set
AuthorTerm_FirstLen(a, b) ==
  LET authors1 == AuthorSet(a)
      authors2 == AuthorSet(b)
      overlap == Cardinality(authors1 \cap authors2)
  IN IF authors1 # {} /\ authors2 # {}
     THEN [sim |-> IF overlap > 0
                   THEN RatMul(Rat(4, 10), Rat(overlap, Cardinality(authors1)))
                   ELSE RatZero,
           total |-> Rat(4, 10)]
     ELSE [sim |-> RatZero, total |-> RatZero]

AuthorTerm(a, b) ==
  LET authors1 == AuthorSet(a)
      authors2 == AuthorSet(b)
      overlap == Cardinality(authors1 \cap authors2)
  IN IF authors1 # {} /\ authors2 # {}
     THEN [sim |-> IF overlap > 0
                   THEN RatMul(Rat(4, 10),
                               Rat(overlap, Max(Cardinality(authors1),
                                                Cardinality(authors2))))
                   ELSE RatZero,
           total |-> Rat(4, 10)]
     ELSE [sim |-> RatZero, total |-> RatZero]

\* set(None) raises TypeError
calculate_article_similarity(article1, article2) ==
  IF article1.authors.kind = "none" \/ article2.authors.kind = "none"
  THEN [raised |-> TRUE, score |-> RatZero]
  ELSE LET terms == << RiskTerm(article1, article2),
                       LevelTerm(article1, article2),
                       YearTerm(article1, article2),
                       AuthorTerm(article1, article2) >>
           similarity == RatAdd(RatAdd(terms[1].sim, terms[2].sim),
                                RatAdd(terms[3].sim, terms[4].sim))
           total_weight == RatAdd(RatAdd(terms[1].total, terms[2].total),
                                  RatAdd(terms[3].total, terms[4].total))
       IN [raised |-> FALSE,
           score |-> IF total_weight.n > 0
                     THEN RatDiv(similarity, total_weight) ELSE RatZero]

NoCall == [op |-> "none"]

\* one call, or a second call after a first one
CalculateArticleSimilarity(article1, article2) ==
  /\ \/ graph.op = "none"
     \/ graph.op = "similarity" /\ graph.prev.op = "none"
  /\ graph' = [op |-> "similarity",
               article1 |-> article1, article2 |-> article2,
               after1 |-> article1, after2 |-> article2,
               prev |-> IF graph.op = "similarity"
                        THEN [graph EXCEPT !.prev = NoCall] ELSE NoCall]
                @@ calculate_article_similarity(article1, article2)
  /\ UNCHANGED << vsVars, monVars, recent >>

\* ------------------------------------------------------------------------
\* CitationGraphGenerator.create_article_similarity_network
\* ------------------------------------------------------------------------
\* the thresholds a caller passes; 7/10 is the default
default_threshold == Rat(7, 10)
Thresholds == {RatZero, Rat(1, 2), default_threshold, Rat(1, 1)}

\* the node f"article_{i}" is the number i
ArticleIds(articles) == 0..(Len(articles) - 1)

\* the score of the pair of nodes p, the earlier record first
PairScore(articles, p) ==
  LET node1 == CHOOSE i \in p : \A j \in p : i <= j
      node2 == CHOOSE j \in p : \A i \in p : i <= j
  IN calculate_article_similarity(articles[node1 + 1], articles[node2 + 1]).score

NodePairs(articles) ==
  {p \in SUBSET ArticleIds(articles) : Cardinality(p) = 2}

\* variant: a score equal to the threshold gives no edge
SimilarityEdges_Strict(articles, similarity_threshold) ==
  [e \in {p \in NodePairs(articles) :
            ~RatGeq(similarity_threshold, PairScore(articles, p))}
     |-> [weight |-> PairScore(articles, e),
          similarity |-> PairScore(articles, e)]]

\* the edges the double loop adds
SimilarityEdges(articles, similarity_threshold) ==
  [e \in {p \in NodePairs(articles) :
            RatGeq(PairScore(articles, p), similarity_threshold)}
     |-> [weight |-> PairScore(articles, e),
          similarity |-> PairScore(articles, e)]]

create_article_similarity_network(articles, similarity_threshold) ==
  IF Len(articles) >= 2 /\ AuthorsNull(articles) THEN [raised |-> TRUE]
  ELSE LET G == [nodes |-> ArticleIds(articles),
                 edges |-> SimilarityEdges(articles, similarity_threshold)]
       IN [raised |-> FALSE,
           network |-> G,
           stats |-> calculate_network_stats(G),
           article_data |-> articles]

CreateArticleSimilarityNetwork(articles, similarity_threshold) ==
  /\ graph.op = "none"
  /\ graph' = [op |-> "article", articles |-> articles,
               similarity_threshold |-> similarity_threshold]
                @@ create_article_similarity_network(articles,
                                                     similarity_threshold)
  /\ UNCHANGED << vsVars, monVars, recent >>

\* ------------------------------------------------------------------------
\* The graph builders, each called on a fresh record list
\* ------------------------------------------------------------------------
InitGraph == InitVectorStoreVars /\ InitMonitorVars /\ recent = NoRecent
               /\ graph = NoGraph

NextGraph ==
  \/ \E articles \in RecordLists : CreateAuthorNetwork(articles)
  \/ \E articles \in RecordLists : CreateKeywordNetwork(articles)
  \/ \E articles \in RecordLists, t \in Thresholds :
       CreateArticleSimilarityNetwork(articles, t)
  \/ \E a, b \in GraphRecords : CalculateArticleSimilarity(a, b)

SpecGraph == InitGraph /\ [][NextGraph]_vars

\* ------------------------------------------------------------------------
\* RAGService.query_knowledge_base
\* ------------------------------------------------------------------------
PreviewLimit == 200
Ellipsis == << W("...") >>

\* variant: the chunk is returned whole
chunk_content_Whole(page_content) == page_content

\* doc.page_content[:200] + "..." if len(doc.page_content) > 200
\* else doc.page_content
chunk_content(page_content) ==
  IF StrLen(page_content) > PreviewLimit
  THEN Slice(page_content, PreviewLimit) \o Ellipsis
  ELSE page_content

source_info(doc) ==
  [title |-> doc.metadata.title,
   authors |-> doc.metadata.authors,
   year |-> doc.metadata.year,
   journal |-> doc.metadata.journal,
   risk_type |-> doc.metadata.risk_type,
   chunk_content |-> chunk_content(doc.page_content)]

\* variant: one source per article title
Sources_ByTitle(context) ==
  LET first == SelectSeq([i \in 1..Len(context) |-> [i |-> i, doc |-> context[i]]],
                         LAMBDA x : \A j \in 1..(x.i - 1) :
                            context[j].metadata.title # x.doc.metadata.title)
  IN [i \in 1..Len(first) |-> source_info(first[i].doc)]

\* the loop over result["context"]
Sources(context) == [i \in 1..Len(context) |-> source_info(context[i])]

\* the filters a caller passes: none, or one key with a value
RagFilterChoices == {1, 2, 4, 6}
Questions == {"q"}

\* outcome names the step of the chain that raises, or "ok"; the answer is
\* whatever the language model returns
QueryKnowledgeBase(question, k, fi, outcome) ==
  /\ \/ /\ outcome = "ok"
        /\ \E r \in SimilaritySearch(collection, k, FilterChoices[fi]) :
             LET context == [i \in 1..Len(r) |-> collection[r[i]]]
                 sources == Sources(context)
             IN call' = [op |-> "query_knowledge_base", k |-> k,
                         filters |-> FilterChoices[fi], raised |-> FALSE,
                         context |-> context,
                         ret |-> [answer |-> "answer",
                                  sources |-> sources,
                                  question |-> question,
                                  total_sources |-> Len(sources)]]
     \/ /\ outcome \in {"retrieve_error", "llm_error"}
        /\ call' = [op |-> "query_knowledge_base", k |-> k,
                    filters |-> FilterChoices[fi], raised |-> TRUE]
  /\ UNCHANGED << collection, uuid_ctr, submitted, monVars, recent, graph >>

\* ------------------------------------------------------------------------
\* RAGService.multi_article_summary
\* ------------------------------------------------------------------------
\* chunks asked of the store for each title
SummaryK == 10

\* the title lists a caller passes: C and D are articles the index never
\* holds a chunk of
TitleLists ==
  { << >>, << ArtA.title >>, << ArtB.title >>, << ArtC.title >>,
    << ArtD.title >>, << ArtA.title, ArtB.title >>,
    << ArtD.title, ArtA.title >> }
FocusQuestions == {"", "q"}

\* the loop over article_titles: one search per title, filtered by the exact
\* title, the results appended in the order of the titles; each element is
\* one possible value of relevant_docs
RECURSIVE RelevantDocs(_)
RelevantDocs(article_titles) ==
  IF article_titles = << >> THEN { << >> }
  ELSE { [i \in 1..Len(r) |-> collection[r[i]]] \o rest :
           r \in SimilaritySearch(collection, SummaryK,
                                  where_clause([title |-> Head(article_titles)])),
           rest \in RelevantDocs(Tail(article_titles)) }

\* unique_articles: the first chunk of each title, in order of appearance
unique_articles(relevant_docs) ==
  LET first == SelectSeq([i \in 1..Len(relevant_docs) |->
                            [i |-> i, doc |-> relevant_docs[i]]],
                         LAMBDA x : \A j \in 1..(x.i - 1) :
                            relevant_docs[j].metadata.title # x.doc.metadata.title)
  IN [i \in 1..Len(first) |->
        [title |-> first[i].doc.metadata.title,
         authors |-> first[i].doc.metadata.authors,
         year |-> first[i].doc.metadata.year,
         journal |-> first[i].doc.metadata.journal]]

\* variant: the synthesis chain runs whatever was retrieved
multi_article_summary_NoGuard(focus_question, relevant_docs, llm_ok) ==
  IF ~llm_ok THEN [raised |-> TRUE, llm_calls |-> 1]
  ELSE [raised |-> FALSE, llm_calls |-> 1,
        ret |-> [summary |-> "synthesis",
                 articles_analyzed |-> unique_articles(relevant_docs),
                 articles_found |-> Len(unique_articles(relevant_docs)),
                 focus_question |-> focus_question,
                 total_chunks_analyzed |-> Len(relevant_docs)]]

\* the body after the retrieval loop; llm_calls counts chain.ainvoke
multi_article_summary(focus_question, relevant_docs, llm_ok) ==
  IF relevant_docs = << >>
  THEN [raised |-> FALSE, llm_calls |-> 0,
        ret |-> [summary |-> "No articles found with the specified titles.",
                 articles_found |-> 0,
                 focus_question |-> focus_question]]
  ELSE IF ~llm_ok THEN [raised |-> TRUE, llm_calls |-> 1]
  ELSE [raised |-> FALSE, llm_calls |-> 1,
        ret |-> [summary |-> "synthesis",
                 articles_analyzed |-> unique_articles(relevant_docs),
                 articles_found |-> Len(unique_articles(relevant_docs)),
                 focus_question |-> focus_question,
                 total_chunks_analyzed |-> Len(relevant_docs)]]

\* outcome names the collaborator that raises, or "ok"
MultiArticleSummary(article_titles, focus_question, outcome) ==
  /\ \/ /\ outcome \in {"ok", "llm_error"}
        /\ \E relevant_docs \in RelevantDocs(article_titles) :
             call' = [op |-> "multi_article_summary",
                      article_titles |-> article_titles,
                      relevant_docs |-> relevant_docs]
                     @@ multi_article_summary(focus_question, relevant_docs,
                                              outcome = "ok")
     \/ /\ outcome = "retrieve_error"
        /\ article_titles # << >>
        /\ call' = [op |-> "multi_article_summary",
                    article_titles |-> article_titles,
                    relevant_docs |-> << >>,
                    raised |-> TRUE, llm_calls |-> 0]
  /\ UNCHANGED << collection, uuid_ctr, submitted, monVars, recent, graph >>

InitRag == InitVectorStoreVars /\ InitMonitorVars /\ recent = NoRecent
             /\ graph = NoGraph

NextRag ==
  \/ \E b \in Batches, store_ok \in BOOLEAN : AddArticles(b, store_ok)
  \/ \E question \in Questions, k \in 1..MaxK, fi \in RagFilterChoices,
        outcome \in {"ok", "retrieve_error", "llm_error"} :
       QueryKnowledgeBase(question, k, fi, outcome)

SpecRag == InitRag /\ [][NextRag]_vars

\* the index is filled and summaries across articles are asked for
NextSynthesis ==
  \/ \E b \in Batches, store_ok \in BOOLEAN : AddArticles(b, store_ok)
  \/ \E article_titles \in TitleLists, focus_question \in FocusQuestions,
        outcome \in {"ok", "retrieve_error", "llm_error"} :
       MultiArticleSummary(article_titles, focus_question, outcome)

SpecSynthesis == InitRag /\ [][NextSynthesis]_vars

\* ------------------------------------------------------------------------
\* The vector-store service and its callers
\* ------------------------------------------------------------------------
InitIndex == InitVectorStoreVars /\ InitMonitorVars /\ recent = NoRecent /\ graph = NoGraph

NextIndex ==
  \/ \E a \in Articles : Chunk(a)
  \/ \E b \in Batches, store_ok \in BOOLEAN : AddArticles(b, store_ok)
  \/ \E k \in 1..MaxK, fi \in 1..Len(FilterChoices), store_ok \in BOOLEAN :
       SearchSimilar(k, fi, store_ok)
  \/ \E store_ok \in BOOLEAN : GetCollectionStats(store_ok)
  \/ DeleteCollection
  \/ \E pdf \in Pdfs, analysis \in Analyses,
        outcome \in {"ok", "extract_error", "analyze_error", "add_error"} :
       ProcessPdf(pdf, analysis, outcome)

SpecIndex == InitIndex /\ [][NextIndex]_vars

\* ------------------------------------------------------------------------
\* Properties of the vector-store service
\* ------------------------------------------------------------------------
NChunks(article) == Len(split_text(primary_content(article)))

EntriesOf(title) ==
  Cardinality({i \in 1..Len(collection) : collection[i].metadata.title = title})

\* the documents the last call appended to the collection
AddedBy(c) == SubSeq(collection, c.before + 1, Len(collection))

Stamped(docs) ==
  /\ Len(docs) >= 1
  /\ \A i \in 1..Len(docs) :
       /\ docs[i].metadata.chunk_id = i - 1
       /\ docs[i].metadata.total_chunks = Len(docs)
       /\ docs[i].metadata.document_id = docs[1].metadata.document_id

\* C1: for a record with a non-empty abstract, chunk_article_content returns
\* at least one chunk; the i-th chunk has chunk_id i, so the positions are
\* 0..n-1, every chunk has total_chunks n, and all share one document_id.
\* The same holds of the chunks of one record inside the collection.
C1_ChunkStamps ==
  /\ (call.op = "chunk" /\ Truthy(call.article.abstract)) => Stamped(call.ret)
  /\ \A i \in 1..Len(collection) :
       LET id == collection[i].metadata.document_id
           mine == SelectSeq(collection, LAMBDA d : d.metadata.document_id = id)
       IN Stamped(mine)

C1_Witness ==
  /\ call.op = "chunk"
  /\ call.article = ArtB
  /\ Len(call.ret) = 2
  /\ call.ret[2].metadata.chunk_id = 1

\* the text of a record that the chunker can use
UsableLen(article) == StrLen(article.abstract) + StrLen(article.full_text)

\* C2 as stated: chunk fails (and returns no chunks) when abstract and
\* full_text are both empty or the usable text is shorter than 100 characters.
C2_FailsOnInsufficientContent ==
  (call.op = "chunk" /\ UsableLen(call.article) < MinPdfText)
     => (call.raised /\ call.ret = << >>)

\* C2 amended: chunk_article_content never fails; also for a record whose
\* abstract and full_text are empty, or whose text is shorter than 100
\* characters, it returns at least one chunk.  The 100-character minimum is
\* applied by process_pdf to the extracted text: below it process_pdf
\* reports success = false and leaves the collection as it was.
C2_ChunkNeverFails ==
  /\ call.op = "chunk" => (~call.raised /\ Len(call.ret) >= 1)
  /\ (call.op = "process_pdf" /\ StrLen(call.pdf.text) < MinPdfText)
       => (~call.ret.success /\ Len(collection) = call.before)
  /\ (call.op = "process_pdf" /\ call.ret.success)
       => (StrLen(call.pdf.text) >= MinPdfText /\ Len(collection) > call.before)

C2_Witness ==
  /\ call.op = "chunk"
  /\ call.article = ArtD
  /\ ~call.raised
  /\ Len(call.ret) = 1

\* C3 as stated: add_articles adds chunks for exactly the submitted records
\* that have a non-empty abstract or a non-empty full_text.
C3_IndexableByAbstractOrFullText ==
  (call.op = "add_articles" /\ ~call.raised) =>
    \A i \in 1..Len(call.articles) :
      (Truthy(call.articles[i].abstract) \/ Truthy(call.articles[i].full_text))
        <=> (\E j \in 1..Len(AddedBy(call)) :
               AddedBy(call)[j].metadata.title = call.articles[i].title)

\* C3 amended: add_articles adds chunks for exactly the submitted records
\* that have a non-empty abstract; a record with full_text but no abstract
\* gets no chunk, like a record that has neither.
C3_IndexableByAbstract ==
  (call.op = "add_articles" /\ ~call.raised) =>
    \A i \in 1..Len(call.articles) :
      Truthy(call.articles[i].abstract)
        <=> (\E j \in 1..Len(AddedBy(call)) :
               AddedBy(call)[j].metadata.title = call.articles[i].title)

C3_Witness ==
  /\ call.op = "add_articles"
  /\ call.articles = << ArtC, ArtA >>
  /\ ~call.raised
  /\ Len(AddedBy(call)) = 1
  /\ AddedBy(call)[1].metadata.title = ArtA.title

RECURSIVE SumChunks(_, _)
SumChunks(articles, i) ==
  IF i > Len(articles) THEN 0
  ELSE (IF Truthy(articles[i].abstract) THEN NChunks(articles[i]) ELSE 0)
         + SumChunks(articles, i + 1)

\* C4: add_articles raises only out of add_documents, never for a record
\* without content; its stats give the batch size, the number of records
\* that were chunked and the number of documents this call added (the sum of
\* the chunk counts of the chunked records); when that number is 0 the
\* collection is not written.
C4_AddStats ==
  call.op = "add_articles" =>
    /\ call.raised => call.wrote
    /\ (\A i \in 1..Len(call.articles) : ~Truthy(call.articles[i].abstract))
         => (~call.raised /\ ~call.wrote)
    /\ ~call.raised =>
         /\ call.ret.total_articles = Len(call.articles)
         /\ call.ret.processed_articles =
              Cardinality({i \in 1..Len(call.articles) :
                             Truthy(call.articles[i].abstract)})
         /\ call.ret.total_chunks = Len(collection) - call.before
         /\ call.ret.total_chunks = SumChunks(call.articles, 1)
         /\ call.ret.total_chunks = 0 => ~call.wrote

C4_Witness ==
  /\ call.op = "add_articles"
  /\ call.articles = << ArtA, ArtB >>
  /\ ~call.raised
  /\ call.ret = [total_articles |-> 2, processed_articles |-> 2, total_chunks |-> 3]

\* C5: add_articles is not idempotent: every accepted submission of a record
\* adds its chunks again, so the collection holds, for each record, its
\* chunk count times the number of times it was submitted; after
\* index(a); index(a) that is twice the chunk count.
C5_NotIdempotent ==
  \A a \in Articles :
    EntriesOf(a.title) =
      (IF Truthy(a.abstract) THEN submitted[a.title] * NChunks(a) ELSE 0)

C5_Witness ==
  /\ call.op = "add_articles"
  /\ call.articles = << ArtB >>
  /\ ~call.raised
  /\ submitted[ArtB.title] = 2
  /\ call.before = NChunks(ArtB)
  /\ Len(collection) = 2 * NChunks(ArtB)

\* C6 as stated: search_similar returns at most k documents, and the
\* metadata of every returned document equals the filter value for every
\* filter key supplied.
C6_FiltersExact ==
  (call.op = "search_similar" /\ ~call.raised) =>
    /\ Len(call.ret) <= call.k
    /\ \A i \in 1..Len(call.ret) : \A key \in DOMAIN call.filters :
         call.ret[i].metadata[key] = call.filters[key]

\* C6 amended: search_similar returns at most k documents, and the metadata
\* of every returned document equals the filter value for every filter key
\* supplied with a value other than None; a filter whose value is None is
\* dropped and constrains nothing.
C6_NonNullFiltersExact ==
  (call.op = "search_similar" /\ ~call.raised) =>
    /\ Len(call.ret) <= call.k
    /\ \A i \in 1..Len(call.ret) : \A key \in DOMAIN call.filters :
         call.filters[key] # NoneOf(key)
           => call.ret[i].metadata[key] = call.filters[key]

C6_Witness ==
  /\ call.op = "search_similar"
  /\ ~call.raised
  /\ DOMAIN call.filters = {"year"}
  /\ call.filters.year = 2020
  /\ Len(call.ret) = 1
  /\ \E i \in 1..Len(collection) : collection[i].metadata.year # 2020

\* C7: get_collection_stats never raises; when counting fails it returns an
\* error field together with total_documents = 0, otherwise total_documents
\* is the number of documents in the collection, with the collection name.
C7_StatsFailSoft ==
  call.op = "get_collection_stats" =>
    /\ ~call.raised
    /\ ~call.store_ok =>
         /\ "error" \in DOMAIN call.ret
         /\ call.ret.total_documents = 0
    /\ call.store_ok =>
         /\ "error" \notin DOMAIN call.ret
         /\ call.ret.total_documents = Len(collection)
         /\ call.ret.collection_name = CHROMA_COLLECTION_NAME

C7_Witness ==
  /\ call.op = "get_collection_stats"
  /\ ~call.store_ok
  /\ Len(collection) > 0
  /\ call.ret.total_documents = 0
  /\ "error" \in DOMAIN call.ret

\* ------------------------------------------------------------------------
\* Properties of the article monitor
\* ------------------------------------------------------------------------
InCycle(id) == mon[id].pc # "idle"

\* is_new(title)
IsNew(id, title) == title \notin mon[id].processed_titles

Floor365(d) == CHOOSE q \in -2..3 : 365 * q <= d /\ d < 365 * (q + 1)

\* C9: is_article_recent is true exactly when the record has a year and
\* year >= current_year - floor(max_age_days / 365); a record without year
\* is never recent; with 30 days in 2024 the minimum acceptable year is 2024.
C9_RecentByYear ==
  /\ recent.ret <=> (/\ recent.year # NoYear
                     /\ recent.year >= recent.year_now - Floor365(recent.max_days))
  /\ (recent.max_days = 30 /\ recent.year_now = 2024)
       => (recent.ret <=> (recent.year # NoYear /\ recent.year >= 2024))

C9_Witness ==
  /\ recent.max_days = 30
  /\ recent.year_now = 2024
  /\ recent.year = 2024
  /\ recent.ret

LoadFailed(m) == m.load_result \in {"not_found", "error"}

\* C10 as stated: when the persisted set is missing or unreadable at the
\* start of a cycle, the cycle goes on with every title looking new.
C10_EverythingLooksNew ==
  \A id \in Monitors : (InCycle(id) /\ LoadFailed(mon[id]))
    => mon[id].loaded_titles = {}

\* C10 amended: when the persisted set is missing or unreadable at the start
\* of a cycle, the cycle does not halt or raise; it goes on with the set the
\* monitor held before the load: empty on a newly built monitor
\* (run_manual_monitoring), so that every title looks new, and the titles of
\* its earlier cycles on a monitor that is reused (schedule_monitoring); the
\* cycle can always take its next step and returns status "completed" with
\* a result for every topic.
C10_LoadFailureKeepsMemory ==
  /\ \A id \in Monitors : (InCycle(id) /\ LoadFailed(mon[id])) =>
       /\ mon[id].loaded_titles = mon[id].before_load
       /\ id = "manual" => mon[id].loaded_titles = {}
       /\ ENABLED (\/ \E an \in Analyses, ok \in BOOLEAN : Analyze(id, an, ok)
                   \/ \E found \in SearchOutcomes : NextTopic(id, found)
                   \/ \E a, b, c \in BOOLEAN : Finish(id, a, b, c))
  /\ (finished.id # "none" /\ finished.summary.status # "disabled"
        /\ LoadFailed(finished.monitor))
       => /\ finished.summary.status = "completed"
          /\ Len(finished.summary.topic_results) = NumTopics

C10_Witness ==
  /\ finished.id = "scheduled"
  /\ finished.summary.status = "completed"
  /\ finished.monitor.load_result = "error"
  /\ finished.monitor.before_load # {}
  /\ finished.monitor.loaded_titles = finished.monitor.before_load

\* ------------------------------------------------------------------------
\* Properties of the graph builders
\* ------------------------------------------------------------------------
Built(op) == graph.op = op /\ ~graph.raised
BuiltAny == graph.op \in {"author", "keyword", "article"} /\ ~graph.raised

\* the cleaned author names of a record
CleanSet(article) ==
  {CleanAuthors(article)[i] : i \in 1..Len(CleanAuthors(article))}

\* the number of input records in which all names of e occur
CoRecords(articles, e) ==
  Cardinality({i \in 1..Len(articles) : e \subseteq CleanSet(articles[i])})

\* C11: in the author network the weight of the edge between two authors is
\* the number of input records in which both cleaned names co-occur, and its
\* evidence list has that many titles; one record with three distinct
\* co-authors gives 3 nodes and 3 edges of weight 1.
C11_EdgeWeightCountsRecords ==
  Built("author") =>
    /\ \A e \in DOMAIN graph.network.edges : Cardinality(e) = 2 =>
         /\ graph.network.edges[e].weight = CoRecords(graph.articles, e)
         /\ Len(graph.network.edges[e].evidence) = CoRecords(graph.articles, e)
    /\ (/\ Len(graph.articles) = 1
        /\ Len(CleanAuthors(graph.articles[1])) = 3
        /\ Cardinality(CleanSet(graph.articles[1])) = 3)
         => /\ Cardinality(graph.network.nodes) = 3
            /\ Cardinality(DOMAIN graph.network.edges) = 3
            /\ \A e \in DOMAIN graph.network.edges :
                 graph.network.edges[e].weight = 1

\* C12: every graph the author, keyword and article-similarity builders
\* return has no self-loop, and every edge weight is >= 0.
C12_NoSelfLoopNoNegativeWeight ==
  BuiltAny =>
    \A e \in DOMAIN graph.network.edges :
      /\ Cardinality(e) = 2
      /\ IF graph.op = "article"
         THEN graph.network.edges[e].weight.n >= 0
         ELSE graph.network.edges[e].weight >= 0

\* the number of input records whose keyword set holds kw
RecordsWith(articles, kw) ==
  Cardinality({i \in 1..Len(articles) : kw \in ArticleKeywords(articles[i])})

InputKeywords(articles) ==
  UNION {ArticleKeywords(articles[i]) : i \in 1..Len(articles)}

\* C13: in the final keyword network a keyword is a node if and only if it
\* occurs in the keyword set of at least 2 input records; a keyword of one
\* record is absent with all its edges, a keyword of two records is present
\* even without an edge.
C13_KeywordNodeIffInTwoRecords ==
  Built("keyword") =>
    /\ graph.network.nodes =
         {kw \in InputKeywords(graph.articles) :
            RecordsWith(graph.articles, kw) >= 2}
    /\ \A e \in DOMAIN graph.network.edges : e \subseteq graph.network.nodes

C13_Witness ==
  /\ Built("keyword")
  /\ \E kw \in graph.network.nodes :
       \A e \in DOMAIN graph.network.edges : kw \notin e
  /\ \E kw \in InputKeywords(graph.articles) :
       RecordsWith(graph.articles, kw) = 1

BothPresent(a, b, field) == Present(a[field]) /\ Present(b[field])
BothYears(a, b) == HasYear(a) /\ HasYear(b)
BothAuthors(a, b) == AuthorSet(a) # {} /\ AuthorSet(b) # {}
Overlap(a, b) == Cardinality(AuthorSet(a) \cap AuthorSet(b))
MaxAuthors(a, b) ==
  IF BothAuthors(a, b)
  THEN Max(Cardinality(AuthorSet(a)), Cardinality(AuthorSet(b))) ELSE 1

\* the denominator of the score, in tenths
Denominator10(a, b) ==
  (IF BothPresent(a, b, "risk_type") THEN 3 ELSE 0)
    + (IF BothPresent(a, b, "level_of_analysis") THEN 2 ELSE 0)
    + (IF BothYears(a, b) THEN 1 ELSE 0)
    + (IF BothAuthors(a, b) THEN 4 ELSE 0)

\* the numerator of the score, in parts of 30 * MaxAuthors(a, b)
Numerator30M(a, b) ==
  (IF BothPresent(a, b, "risk_type") /\ a.risk_type = b.risk_type
   THEN 9 * MaxAuthors(a, b) ELSE 0)
    + (IF /\ BothPresent(a, b, "level_of_analysis")
          /\ a.level_of_analysis = b.level_of_analysis
       THEN 6 * MaxAuthors(a, b) ELSE 0)
    + (IF BothYears(a, b) /\ Abs(a.year - b.year) <= 3
       THEN (3 - Abs(a.year - b.year)) * MaxAuthors(a, b) ELSE 0)
    + (IF BothAuthors(a, b) THEN 12 * Overlap(a, b) ELSE 0)

\* score = numerator / denominator, or 0 when the denominator is 0
IsScore(score, a, b) ==
  IF Denominator10(a, b) = 0 THEN score.n = 0
  ELSE score.n * 3 * Denominator10(a, b) * MaxAuthors(a, b)
         = Numerator30M(a, b) * score.d

\* C14: the similarity score of two records is numerator / denominator:
\* every attribute present in both records adds its weight to the
\* denominator (risk_type 0.3, level_of_analysis 0.2, year 0.1, authors 0.4)
\* and adds to the numerator 0.3 / 0.2 on an exact match,
\* 0.1 * (1 - |dyear| / 3) when |dyear| <= 3 and
\* 0.4 * |A1 \cap A2| / max(|A1|, |A2|) when the author sets overlap; with
\* no attribute present in both the score is exactly 0.
C14_SimilarityScore ==
  Built("similarity") => IsScore(graph.score, graph.article1, graph.article2)

C14_Witness ==
  /\ Built("similarity")
  /\ Denominator10(graph.article1, graph.article2) = 10
  /\ Abs(graph.article1.year - graph.article2.year) > 3
  /\ graph.score = Rat(1, 2)
  /\ graph.prev.op = "similarity"
  /\ Denominator10(graph.prev.article1, graph.prev.article2) = 0
  /\ graph.prev.score = RatZero

\* C15: the article-similarity network has one node article_<i> per input
\* record, and for every unordered pair of distinct records an edge exists
\* if and only if their score >= the caller's threshold, with the score as
\* weight; records {A, X,Y, Financial, 2020} and {B, Y,Z, Financial, 2021}
\* at threshold 0.5 give exactly one edge of weight
\* (0.3 + 0.1 * (1 - 1/3) + 0.4 * (1/2)) / 0.8 = 17/24.
C15_EdgeIffScoreReachesThreshold ==
  Built("article") =>
    /\ graph.network.nodes = 0..(Len(graph.articles) - 1)
    /\ \A e \in DOMAIN graph.network.edges :
         e \subseteq graph.network.nodes /\ Cardinality(e) = 2
    /\ \A i, j \in 0..(Len(graph.articles) - 1) : i < j =>
         LET a == graph.articles[i + 1]
             b == graph.articles[j + 1]
             score == calculate_article_similarity(a, b).score
         IN /\ {i, j} \in DOMAIN graph.network.edges
                 <=> score.n * graph.similarity_threshold.d
                       >= graph.similarity_threshold.n * score.d
            /\ {i, j} \in DOMAIN graph.network.edges
                 => /\ graph.network.edges[{i, j}].weight = score
                    /\ IsScore(graph.network.edges[{i, j}].weight, a, b)
    /\ (graph.articles = << GraphA, GraphB >>
          /\ graph.similarity_threshold = Rat(1, 2))
         => /\ DOMAIN graph.network.edges = {{0, 1}}
            /\ graph.network.edges[{0, 1}].weight.n * 24
                 = 17 * graph.network.edges[{0, 1}].weight.d

C15_Witness ==
  /\ Built("article")
  /\ graph.articles = << GraphA, GraphB >>
  /\ graph.similarity_threshold = Rat(1, 2)
  /\ Cardinality(DOMAIN graph.network.edges) = 1

StatsOfNonEmpty(G, stats) ==
  LET n == Cardinality(G.nodes)
      m == Cardinality(DOMAIN G.edges)
  IN /\ stats.nodes = n
     /\ stats.edges = m
     /\ stats.connected_components
          = Cardinality({Component(G, {v}) : v \in G.nodes})
     /\ stats.avg_degree.n * n = SumDegrees(G, G.nodes) * stats.avg_degree.d
     /\ \A v \in G.nodes :
          stats.min_degree <= Degree(G, v) /\ Degree(G, v) <= stats.max_degree
     /\ \E v \in G.nodes : Degree(G, v) = stats.min_degree
     /\ \E v \in G.nodes : Degree(G, v) = stats.max_degree

StatsOfEmpty(stats) ==
  DOMAIN stats = {"nodes", "edges"} /\ stats.nodes = 0 /\ stats.edges = 0

\* density = edges / (nodes * (nodes - 1) / 2), a quotient that exists
DensityIsQuotient(G, stats) ==
  LET n == Cardinality(G.nodes)
      m == Cardinality(DOMAIN G.edges)
  IN /\ n * (n - 1) # 0
     /\ stats.density.n * n * (n - 1) = 2 * m * stats.density.d

\* C17 as stated: an empty graph reports exactly {nodes: 0, edges: 0}; every
\* non-empty graph reports its node and edge counts,
\* density = edges / (nodes * (nodes - 1) / 2), the number of connected
\* components and the average, minimum and maximum degree.
C17_NetworkStats ==
  BuiltAny =>
    IF graph.network.nodes = {} THEN StatsOfEmpty(graph.stats)
    ELSE /\ StatsOfNonEmpty(graph.network, graph.stats)
         /\ DensityIsQuotient(graph.network, graph.stats)

\* C17 amended: as stated, but the density is
\* edges / (nodes * (nodes - 1) / 2) for a graph of two or more nodes and 0
\* for a graph of one node, where the quotient does not exist.
C17_NetworkStatsSingleNodeZero ==
  BuiltAny =>
    IF graph.network.nodes = {} THEN StatsOfEmpty(graph.stats)
    ELSE /\ StatsOfNonEmpty(graph.network, graph.stats)
         /\ IF Cardinality(graph.network.nodes) = 1
            THEN graph.stats.density = RatZero
            ELSE DensityIsQuotient(graph.network, graph.stats)

C17_Witness ==
  /\ Built("keyword")
  /\ Cardinality(graph.network.nodes) = 1
  /\ graph.stats.nodes = 1
  /\ graph.stats.edges = 0
  /\ graph.stats.density = RatZero
  /\ graph.stats.connected_components = 1

\* C18: none of the graph builders raises on empty or degenerate input: for
\* an empty record list and for records in which an optional field
\* (authors, year, risk_type, level_of_analysis, title, text fields) is
\* absent, empty or null, each builder returns a graph and its statistics.
C18_BuildersNeverRaise ==
  /\ graph.op \in {"author", "keyword", "article"}
       => /\ ~graph.raised
          /\ {"network", "stats"} \subseteq DOMAIN graph
  /\ graph.op = "similarity" => ~graph.raised

\* ------------------------------------------------------------------------
\* Properties of the retrieval orchestrator
\* ------------------------------------------------------------------------
Answered == call.op = "query_knowledge_base" /\ ~call.raised

\* C19 as stated: the content preview of every source is at most 200
\* characters long, whatever the length of the retrieved chunk.
C19_PreviewAtMost200 ==
  Answered =>
    \A i \in 1..Len(call.ret.sources) :
      StrLen(call.ret.sources[i].chunk_content) <= 200

\* C19 amended: the content preview of every source is at most 203
\* characters long: a chunk of at most 200 characters is returned whole, a
\* longer one as its first 200 characters followed by "...".
C19_PreviewAtMost203 ==
  Answered =>
    \A i \in 1..Len(call.ret.sources) :
      LET preview == call.ret.sources[i].chunk_content
          chunk == call.context[i].page_content
      IN /\ StrLen(preview) <= 203
         /\ StrLen(chunk) <= 200 => preview = chunk
         /\ StrLen(chunk) > 200 =>
              /\ StrLen(preview) = 203
              /\ preview[Len(preview)] = Run("...", 3)
              /\ SubSeq(preview, 1, Len(preview) - 1) = Slice(chunk, 200)

C19_Witness ==
  /\ Answered
  /\ \E i, j \in 1..Len(call.ret.sources) :
       /\ StrLen(call.context[i].page_content) > 200
       /\ StrLen(call.ret.sources[i].chunk_content) = 203
       /\ StrLen(call.context[j].page_content) <= 200
       /\ call.ret.sources[j].chunk_content = call.context[j].page_content

\* C20: query_knowledge_base does no re-ranking: the sources correspond one
\* to one, in the same order, to the chunks the retrieval returned, and
\* total_sources is the number of retrieved chunks.
C20_SourcesInRetrievalOrder ==
  Answered =>
    /\ Len(call.ret.sources) = Len(call.context)
    /\ call.ret.total_sources = Len(call.context)
    /\ \A i \in 1..Len(call.context) :
         /\ call.ret.sources[i].title = call.context[i].metadata.title
         /\ call.ret.sources[i].year = call.context[i].metadata.year
         /\ call.ret.sources[i].risk_type = call.context[i].metadata.risk_type
         /\ Slice(call.ret.sources[i].chunk_content, 200)
              = Slice(call.context[i].page_content, 200)

C20_Witness ==
  /\ Answered
  /\ Len(call.context) = 2
  /\ call.context[1].metadata.title = call.context[2].metadata.title
  /\ call.context[1].metadata.chunk_id > call.context[2].metadata.chunk_id
  /\ call.ret.total_sources = 2
  /\ call.ret.sources[1].chunk_content # call.ret.sources[2].chunk_content

\* ------------------------------------------------------------------------
\* Properties of the cross-article summary
\* ------------------------------------------------------------------------
Summarized == call.op = "multi_article_summary"

\* the chunks of the index that carry one of the requested titles
ChunksOfTitles(article_titles) ==
  {i \in 1..Len(collection) :
     \E j \in 1..Len(article_titles) :
        collection[i].metadata.title = article_titles[j]}

\* C21: the language model is invoked only if the index holds a chunk of a
\* requested title; when it holds none (also for an empty title list) and the
\* retrievals return, the zero-result response comes back (articles_found = 0)
\* and the language model was not called
C21_LlmOnlyWithChunks ==
  Summarized =>
    /\ call.llm_calls > 0 => ChunksOfTitles(call.article_titles) # {}
    /\ (ChunksOfTitles(call.article_titles) = {} /\ ~call.raised) =>
         /\ call.llm_calls = 0
         /\ call.ret.articles_found = 0
         /\ DOMAIN call.ret = {"summary", "articles_found", "focus_question"}

\* a summary over titles the index holds nothing of, on a non-empty index
C21_Witness ==
  /\ Summarized /\ ~call.raised
  /\ call.article_titles # << >>
  /\ Len(collection) > 0
  /\ ChunksOfTitles(call.article_titles) = {}
  /\ call.llm_calls = 0

\* ------------------------------------------------------------------------
\* Properties of the monitoring cycle
\* ------------------------------------------------------------------------
Completed == finished.summary.status = "completed"
Quiet == \A id \in Monitors : mon[id].pc = "idle"

CountOf(seq, e) == Cardinality({i \in 1..Len(seq) : seq[i] = e})
TitlesOf(articles) == {articles[i].title : i \in 1..Len(articles)}
NoTitleTwice(articles) ==
  \A i, j \in 1..Len(articles) : articles[i].title = articles[j].title => i = j

\* C23: in every enabled cycle the set is loaded once, before the first
\* search and newness check, and saved exactly once, as the last step, after
\* every topic and after the storage attempt (made iff articles were found),
\* also when a search, an analysis or the storage fails; a save that writes
\* leaves the monitor's set in the file.
C23_LoadFirstSaveLastOnce ==
  /\ \A id \in Monitors : InCycle(id) =>
       /\ Head(mon[id].events) = "load"
       /\ CountOf(mon[id].events, "load") = 1
       /\ CountOf(mon[id].events, "save") = 0
       /\ CountOf(mon[id].events, "store") = 0
  /\ Completed =>
       LET events == finished.monitor.events
           n == Len(events)
       IN /\ events[1] = "load" /\ CountOf(events, "load") = 1
          /\ events[n] = "save" /\ CountOf(events, "save") = 1
          /\ CountOf(events, "store")
               = (IF finished.summary.articles # << >> THEN 1 ELSE 0)
          /\ finished.summary.articles # << >> => events[n - 1] = "store"
          /\ CountOf(events, "search") <= NumTopics
          /\ finished.saved =>
               (file.exists /\ file.titles = finished.monitor.processed_titles)

\* a cycle in which an analysis raised and the storage failed, and which saved
C23_Witness ==
  /\ Completed
  /\ finished.monitor.failed # {}
  /\ finished.summary.articles # << >>
  /\ ~finished.sent
  /\ finished.saved
  /\ CountOf(finished.monitor.events, "search") = NumTopics

\* C25: no article is reprocessed: no title is analysed twice in a cycle, and
\* no title is sent to the spreadsheet or to the index twice, within a cycle
\* or across cycles
C25_NeverReprocessed ==
  /\ \A id \in Monitors :
       NoTitleTwice(mon[id].all_articles \o mon[id].analyzed_articles)
  /\ Completed => NoTitleTwice(finished.summary.articles)
  /\ \A i, j \in 1..Len(sheet) : sheet[i] = sheet[j] => i = j

\* C27: after a cycle, every title of the saved set is the title of an article
\* that was sent to the spreadsheet and whose chunks the index accepted
C27_SavedTitlesWereStored ==
  (Completed /\ file.exists) =>
    \A title \in file.titles :
       /\ submitted[title] > 0
       /\ \E i \in 1..Len(sheet) : sheet[i] = title

\* C28 as stated: an article whose analysis raised in the cycle is not in the
\* processed-title set and not among the cycle's articles
C28_FailedArticleStaysNew ==
  Completed =>
    \A title \in finished.monitor.failed :
       /\ title \notin finished.monitor.processed_titles
       /\ title \notin TitlesOf(finished.summary.articles)

\* C28 amended: an analysis that raises adds neither the title to the
\* processed-title set nor the article to the cycle's articles, and the cycle
\* goes on: every article analysed without error is among the cycle's
\* articles and every topic has its result.  A title whose analysis raised
\* and which no other attempt of the cycle (the same title returned again in
\* the topic or under a later topic) analysed without error is not in the
\* monitor's set, not among the articles and not in the set the cycle saves.
C28_FailedAttemptAddsNothing ==
  /\ \A id \in Monitors : InCycle(id) =>
       \A title \in mon[id].failed \ mon[id].cycle_marked : IsNew(id, title)
  /\ Completed =>
       /\ \A title \in finished.monitor.failed \ finished.monitor.cycle_marked :
            /\ title \notin finished.monitor.processed_titles
            /\ title \notin TitlesOf(finished.summary.articles)
            /\ finished.saved => title \notin file.titles
       /\ TitlesOf(finished.summary.articles) = finished.monitor.cycle_marked
       /\ DOMAIN finished.summary.topic_results = 1..NumTopics

\* the first analysis of the topic raised, a later one went through, and the
\* failed title was not saved
C28_Witness ==
  /\ Completed /\ finished.saved
  /\ finished.monitor.failed \ finished.monitor.cycle_marked # {}
  /\ finished.monitor.cycle_marked # {}
  /\ finished.monitor.failed \cap file.titles = {}

\* ------------------------------------------------------------------------
\* Properties of the chunker, two calls
\* ------------------------------------------------------------------------
\* C24: chunk is a deterministic function of the record: a call with the
\* record of the call before it returns the same chunk sequence, metadata
\* and document_id included
C24_ChunkDeterministic ==
  (/\ call.op = "chunk"
   /\ call.previous.op = "chunk"
   /\ call.previous.article = call.article)
    => call.ret = call.previous.ret

\* ------------------------------------------------------------------------
\* Properties of the author network: which records contribute
\* ------------------------------------------------------------------------
\* the records with at least two cleaned author names
Contributors(articles) ==
  {i \in 1..Len(articles) : Len(CleanAuthors(articles[i])) >= 2}

\* the places where `author` stands in the author lists of those records
Occurrences(articles, author) ==
  {p \in Contributors(articles) \X (1..3) :
     /\ p[2] <= Len(CleanAuthors(articles[p[1]]))
     /\ CleanAuthors(articles[p[1]])[p[2]] = author}

\* C26: only records with at least 2 cleaned author names contribute to the
\* author network: its nodes are the names of those records, every edge lies
\* inside one of them, and an author's article count, risk types and years
\* come from those records alone; a record with 0 or 1 author adds nothing,
\* and an author who appears only in such records is not a node.
C26_OnlyCoauthoredRecordsContribute ==
  Built("author") =>
    LET articles == graph.articles
        with == Contributors(articles)
    IN /\ graph.network.nodes = UNION {CleanSet(articles[i]) : i \in with}
       /\ DOMAIN graph.author_info = graph.network.nodes
       /\ \A e \in DOMAIN graph.network.edges :
            \E i \in with : e \subseteq CleanSet(articles[i])
       /\ \A author \in graph.network.nodes :
            LET info == graph.author_info[author]
                occ == Occurrences(articles, author)
            IN /\ info.articles = Cardinality(occ)
               /\ info.risk_types =
                    {articles[p[1]].risk_type : p \in
                       {q \in occ : Present(articles[q[1]].risk_type)}}
               /\ Len(info.years) =
                    Cardinality({q \in occ : articles[q[1]].year # NoYear})
               /\ {info.years[k] : k \in 1..Len(info.years)} =
                    {articles[p[1]].year : p \in
                       {q \in occ : articles[q[1]].year # NoYear}}
       /\ \A i \in (1..Len(articles)) \ with :
            \A author \in CleanSet(articles[i]) :
               (\A j \in with : author \notin CleanSet(articles[j]))
                 => author \notin graph.network.nodes

\* a co-authored record and a record of one of its authors alone, whose
\* year the author's entry does not have
C26_Witness ==
  /\ Built("author")
  /\ \E i \in (1..Len(graph.articles)) \ Contributors(graph.articles) :
       \E author \in CleanSet(graph.articles[i]) :
          /\ author \in graph.network.nodes
          /\ graph.author_info[author].articles = 1
          /\ graph.articles[i].year # NoYear
          /\ \A k \in 1..Len(graph.author_info[author].years) :
               graph.author_info[author].years[k] # graph.articles[i].year

\* ------------------------------------------------------------------------
\* Properties of the network statistics: ranges
\* ------------------------------------------------------------------------
\* C29: for every non-empty graph of the three builders the density lies in
\* [0, 1], avg_degree = 2 * edges / nodes and
\* min_degree <= avg_degree <= max_degree <= nodes - 1.
C29_StatsInRange ==
  (BuiltAny /\ graph.network.nodes # {}) =>
    LET stats == graph.stats
    IN /\ stats.density.n >= 0
       /\ stats.density.n <= stats.density.d
       /\ stats.avg_degree.n * stats.nodes = 2 * stats.edges * stats.avg_degree.d
       /\ stats.min_degree * stats.avg_degree.d <= stats.avg_degree.n
       /\ stats.avg_degree.n <= stats.max_degree * stats.avg_degree.d
       /\ stats.max_degree <= stats.nodes - 1

\* ------------------------------------------------------------------------
\* Properties of the cycle's summary
\* ------------------------------------------------------------------------
RECURSIVE SumValues(_, _)
SumValues(dict, keys) ==
  IF keys = {} THEN 0
  ELSE LET key == CHOOSE k \in keys : TRUE
       IN dict[key] + SumValues(dict, keys \ {key})

\* C30: the summary of a finished cycle has status "completed" and its
\* total_articles_processed is the sum of the per-topic counts of
\* topic_results, whatever failed in the cycle; a disabled monitor returns
\* "disabled" and has loaded nothing, saved nothing and changed nothing.
C30_SummaryAddsUp ==
  /\ Completed =>
       finished.summary.total_articles_processed
         = SumValues(finished.summary.topic_results,
                     DOMAIN finished.summary.topic_results)
  /\ finished.summary.status = "disabled" =>
       /\ finished.monitor.pc = "idle"
       /\ finished.monitor.events = << >>
       /\ ~finished.saved

\* a cycle that has begun reaches its summary, whatever fails on the way
CycleTerminates ==
  \A id \in Monitors : InCycle(id) ~> (Completed /\ finished.id = id)

====
